---- MODULE Spec2Model ----
(***************************************************************************)
(* nas-media-catalog: the UPnP/DLNA client (upnp_client.py).               *)
(*                                                                         *)
(* The client object holds discovered_servers and connected_server.  Its   *)
(* three operations are modelled step by step, one action per network      *)
(* interaction:                                                            *)
(*   discover_media_servers : SSDP receive loop, then one descriptor fetch *)
(*                            per discovered device;                       *)
(*   connect_to_server      : one atomic step;                             *)
(*   browse_media_files     : the recursive container walk, one Browse     *)
(*                            request per step, with an explicit stack.    *)
(* Time is counted in whole seconds (Tick).  An optional value is the      *)
(* empty tuple (Python None) or a one-element tuple.                       *)
(***************************************************************************)
EXTENDS Integers, Sequences, FiniteSets, TLC

VARIABLES
    discovered_servers,  \* self.discovered_servers
    connected_server,    \* self.connected_server (optional)
    pc,                  \* position of the running call, "idle" between calls
    ret,                 \* outcome of the last finished call
    \* ---- frame of discover_media_servers / _ssdp_discover
    timeout,             \* the timeout argument
    elapsed,             \* time.time() - start_time
    waited,              \* how long the running recvfrom has been blocked
    queue,               \* datagrams in the socket's receive buffer
    burst,               \* datagrams that arrived during the current second
    devices,             \* the local list `devices`
    reached,             \* history: replies that reached the port in time
    received,            \* history: the datagrams recvfrom returned
    failure,             \* history: the last exception of the socket, or ""
    repeats,             \* history: some datagram was received twice
    media_servers,       \* the local list `media_servers`
    fetched,             \* history: descriptor response got for each device
    \* ---- frame of browse_media_files / _browse_container_recursive
    max_depth,           \* the max_depth argument
    stack,               \* activation records of _browse_container_recursive
    media_files,         \* the accumulating list `media_files`
    found_by,            \* history: request that produced each media file
    requests,            \* history: Browse requests sent, in order
    server,              \* the media server's answer per container id
    call,                \* history: operation and arguments of the last call
    snapshot,            \* the media files handed to the playlist generator
    \* ---- the application (main.py) and its database
    table,               \* the rows of the media_files table
    task,                \* the request handler or background task in progress
    upnp_client,         \* global upnp_client: 0 is None, n the n-th client built
    playlist_gen         \* global playlist_gen: 0 is None, n built on client n

vars == <<discovered_servers, connected_server, pc, ret, timeout, elapsed,
          waited, queue, burst, devices, reached, received, failure,
          repeats, media_servers, fetched, max_depth, stack, media_files, found_by, requests, server,
          call, snapshot, table, task, upnp_client, playlist_gen>>

clientVars == <<discovered_servers, connected_server>>
ssdpVars == <<timeout, elapsed, waited, queue, burst, devices, reached,
              received, failure, repeats>>
resolveVars == <<media_servers, fetched>>
walkVars == <<max_depth, stack, media_files, found_by, requests, server>>
generatorVars == <<call, snapshot>>
appVars == <<table, task, upnp_client, playlist_gen>>

None == <<>>
Some(x) == <<x>>

(***************************************************************************)
(* Bounds of the model.                                                    *)
(***************************************************************************)
MaxTimeout == 6      \* largest timeout argument tried for SSDP discovery
MaxBurst == 1        \* datagrams that can arrive within one second
MaxDepthArg == 3     \* largest max_depth argument tried for a walk
MaxDocLen == 2       \* elements in one DIDL-Lite document

(***************************************************************************)
(* Python exceptions.  Every handler of the client is `except Exception`,  *)
(* which catches all of them.                                              *)
(***************************************************************************)
Exceptions == {"OSError", "socket.timeout", "ValueError", "ConnectionError",
               "ParseError", "IndexError", "RuntimeError"}

CatchesException_OnlyOSError(exc) == exc = "OSError"

CatchesException(exc) == exc \in Exceptions

Return(op, value) == [op |-> op, kind |-> "return", value |-> value]
Raise(op, exc) == [op |-> op, kind |-> "raise", value |-> <<exc>>]
Running(op) == [op |-> op, kind |-> "running", value |-> <<>>]
NoCall == [op |-> "none", kind |-> "return", value |-> <<>>]
NoArgs == [op |-> "none"]
NoTask == [op |-> "none"]

(***************************************************************************)
(* SSDP replies and _parse_ssdp_response.                                  *)
(***************************************************************************)
StatusOK == "HTTP/1.1 200 OK"

UpperKey ==
    [k \in {"LOCATION", "Location", "USN", "ST", "SERVER", "Server", "EXT"} |->
        CASE k \in {"LOCATION", "Location"} -> "LOCATION"
          [] k \in {"SERVER", "Server"} -> "SERVER"
          [] OTHER -> k]

Hdr(k, v) == [key |-> k, value |-> v]

\* headers[key.strip().upper()] = value.strip(): the last line with a key wins
HasHeader(hs, K) == \E i \in 1..Len(hs) : UpperKey[hs[i].key] = K

HeaderGet(hs, K, default) ==
    IF HasHeader(hs, K)
    THEN LET last == CHOOSE i \in 1..Len(hs) :
                        /\ UpperKey[hs[i].key] = K
                        /\ \A j \in (i+1)..Len(hs) : UpperKey[hs[j].key] # K
         IN hs[last].value
    ELSE default

parse_ssdp_response(response) ==
    IF response.status_line # StatusOK
    THEN None
    ELSE IF HasHeader(response.headers, "LOCATION")
         THEN Some([location |-> HeaderGet(response.headers, "LOCATION", ""),
                    server |-> HeaderGet(response.headers, "SERVER", ""),
                    st |-> HeaderGet(response.headers, "ST", ""),
                    usn |-> HeaderGet(response.headers, "USN", "")])
         ELSE None

MediaServerST == "urn:schemas-upnp-org:device:MediaServer:1"

Reply(loc, usn, st, srv) ==
    [status_line |-> StatusOK,
     headers |-> <<Hdr("EXT", ""), Hdr("LOCATION", loc), Hdr("SERVER", srv),
                   Hdr("ST", st), Hdr("USN", usn)>>]

\* the datagrams the network can deliver
ReplyFritz == Reply("http://fritz.box:49000/desc.xml", "uuid:fritz",
                    MediaServerST, "FRITZ!Box")
ReplyFritzRoot == Reply("http://fritz.box:49000/desc.xml", "uuid:fritz",
                        "upnp:rootdevice", "FRITZ!Box")
ReplyNas == [status_line |-> StatusOK,
             headers |-> <<Hdr("Location", "http://nas:8200/rootDesc.xml"),
                           Hdr("USN", "uuid:nas"), Hdr("ST", MediaServerST)>>]
ReplyNoLocation == [status_line |-> StatusOK,
                    headers |-> <<Hdr("USN", "uuid:tv"),
                                  Hdr("ST", MediaServerST)>>]
ReplyNotify == [status_line |-> "NOTIFY * HTTP/1.1",
                headers |-> <<Hdr("LOCATION", "http://tv/desc.xml"),
                              Hdr("USN", "uuid:tv")>>]

SsdpReplies == {ReplyFritz, ReplyFritzRoot, ReplyNas, ReplyNoLocation,
                ReplyNotify}

\* a well-formed 200-OK reply that carries a LOCATION header
WellFormedReply(r) ==
    /\ r.status_line = StatusOK
    /\ \E i \in 1..Len(r.headers) : r.headers[i].key \in {"LOCATION", "Location"}

InSeq(x, s) == \E i \in 1..Len(s) : s[i] = x

Range(s) == {s[i] : i \in 1..Len(s)}

Min(a, b) == IF a < b THEN a ELSE b

\* sock.settimeout(min(timeout, 5))
SocketTimeoutCap == 5

SocketTimeout(t) == Min(t, SocketTimeoutCap)

\* `if device_info and device_info not in devices: devices.append(...)`
AddDevice_NoDedup(devs, parsed) ==
    IF parsed # None THEN Append(devs, parsed[1]) ELSE devs

AddDevice(devs, parsed) ==
    IF parsed # None /\ ~InSeq(parsed[1], devs)
    THEN Append(devs, parsed[1])
    ELSE devs

\* `except socket.timeout: break` / `except Exception: continue`
RecvHandler(exc) ==
    IF exc = "socket.timeout" THEN "break"
    ELSE IF CatchesException(exc) THEN "continue"
    ELSE "raise"

(***************************************************************************)
(* Device descriptors and _create_media_server_from_ssdp.                  *)
(* A descriptor response is a transport error, or an HTTP status with a    *)
(* body; a body is unparsable or an XML tree reduced to the elements the   *)
(* code reads.  Text is a tuple of characters or of tokens.                *)
(***************************************************************************)
FritzName == <<"F", "R", "I", "T", "Z">>
NasName == <<"n", "a", "s">>
UnknownDevice == <<"U", "n", "k", "n", "o", "w", "n">>

MediaServerType == <<"urn", "schemas-upnp-org", "device", "MediaServer", "1">>
MediaRendererType == <<"urn", "schemas-upnp-org", "device", "MediaRenderer", "1">>
ContentDirectoryType == <<"urn", "schemas-upnp-org", "service", "ContentDirectory", "1">>
ConnectionManagerType == <<"urn", "schemas-upnp-org", "service", "ConnectionManager", "1">>

\* `"MediaServer" in device_type`
Contains(text, token) == \E i \in 1..Len(text) : text[i] = token

\* scheme and authority of a descriptor location
Origin ==
    [l \in {"http://fritz.box:49000/desc.xml", "http://nas:8200/rootDesc.xml",
            "http://tv/desc.xml", ""} |->
        CASE l = "http://fritz.box:49000/desc.xml" -> "http://fritz.box:49000"
          [] l = "http://nas:8200/rootDesc.xml" -> "http://nas:8200"
          [] l = "http://tv/desc.xml" -> "http://tv"
          [] OTHER -> ""]

Url(o, p) == [origin |-> o, path |-> p]
EmptyUrl == Url("", "")
ControlPath == Url("", "/upnp/control/cd")
ControlAbsolute == Url("http://fritz.box:49200", "/cd")

\* urljoin(location, control_url): a reference with its own origin replaces
\* the base, a path reference is resolved against the base's origin
urljoin_Unresolved(location, ref) == ref

urljoin(location, ref) ==
    IF ref.origin # "" THEN ref ELSE Url(Origin[location], ref.path)

Service(type, ctl) == [serviceType |-> type, controlURL |-> ctl]

Device(name, udn, type, services) ==
    [friendlyName |-> name, UDN |-> udn, deviceType |-> type,
     serviceList |-> services]

\* _get_xml_text: the element's text, or the default when the element is
\* missing or empty; an optional text is None or Some(text)
get_xml_text(opt, default) ==
    IF opt # None /\ opt[1] # <<>> THEN opt[1] ELSE default

HttpError(exc) == [error |-> exc, status_code |-> 0, well_formed |-> FALSE,
                   device |-> None]
HttpStatus(code) == [error |-> "", status_code |-> code, well_formed |-> FALSE,
                     device |-> None]
Xml(device) == [error |-> "", status_code |-> 200, well_formed |-> TRUE,
                device |-> device]

DescFritz ==
    Xml(Some(Device(Some(FritzName), Some(<<"uuid:fritz">>),
                    Some(MediaServerType),
                    Some(<<Service(Some(ConnectionManagerType), Some(<<ControlPath>>)),
                           Service(Some(ContentDirectoryType), Some(<<ControlPath>>))>>))))
DescNas ==
    Xml(Some(Device(Some(NasName), Some(<<"uuid:nas">>),
                    Some(MediaServerType),
                    Some(<<Service(Some(ContentDirectoryType), Some(<<ControlAbsolute>>))>>))))
DescUnnamed ==
    Xml(Some(Device(None, None, Some(MediaServerType),
                    Some(<<Service(Some(ContentDirectoryType), Some(<<ControlPath>>))>>))))
DescRenderer ==
    Xml(Some(Device(Some(NasName), Some(<<"uuid:tv">>),
                    Some(MediaRendererType),
                    Some(<<Service(Some(ContentDirectoryType), Some(<<ControlPath>>))>>))))
DescNoContentDirectory ==
    Xml(Some(Device(Some(NasName), Some(<<"uuid:nas">>),
                    Some(MediaServerType),
                    Some(<<Service(Some(ConnectionManagerType), Some(<<ControlPath>>))>>))))
DescNoControlURL ==
    Xml(Some(Device(Some(NasName), Some(<<"uuid:nas">>),
                    Some(MediaServerType),
                    Some(<<Service(Some(ContentDirectoryType), None)>>))))
DescNoServiceList ==
    Xml(Some(Device(Some(NasName), Some(<<"uuid:nas">>),
                    Some(MediaServerType), None)))
DescNoDevice == Xml(None)
DescMalformed == [error |-> "", status_code |-> 200, well_formed |-> FALSE,
                  device |-> None]

DescriptorResponses ==
    {DescFritz, DescNas, DescUnnamed, DescRenderer, DescNoContentDirectory,
     DescNoControlURL, DescNoServiceList, DescNoDevice, DescMalformed,
     HttpStatus(404), HttpStatus(500), HttpError("ConnectionError")}

Value(v) == [exc |-> "", value |-> v]
Throw(e) == [exc |-> e, value |-> None]

\* `if "ContentDirectory" in service_type:`
IsContentDirectory_AnyService(service_type) == TRUE

IsContentDirectory(service_type) == Contains(service_type, "ContentDirectory")

\* the first ContentDirectory service that has a non-empty controlURL
RECURSIVE FindContentDirectory(_, _, _)
FindContentDirectory(services, i, location) ==
    IF i > Len(services) THEN None
    ELSE LET service_type == get_xml_text(services[i].serviceType, <<>>)
             control_url == get_xml_text(services[i].controlURL, <<>>)
         IN IF /\ IsContentDirectory(service_type)
               /\ control_url # <<>>
               /\ control_url[1] # EmptyUrl
            THEN Some(urljoin(location, control_url[1]))
            ELSE FindContentDirectory(services, i + 1, location)

\* the body of the try block of _create_media_server_from_ssdp
CreateMediaServerBody(device_info, response) ==
    IF device_info.location = "" THEN Value(None)
    ELSE IF response.error # "" THEN Throw(response.error)
    ELSE IF response.status_code # 200 THEN Value(None)
    ELSE IF ~response.well_formed THEN Throw("ParseError")
    ELSE IF response.device = None THEN Value(None)
    ELSE LET device_elem == response.device[1]
             name == get_xml_text(device_elem.friendlyName, UnknownDevice)
             udn == get_xml_text(device_elem.UDN, <<>>)
             device_type == get_xml_text(device_elem.deviceType, <<>>)
             content_directory_url ==
                 IF device_elem.serviceList = None THEN None
                 ELSE FindContentDirectory(device_elem.serviceList[1], 1,
                                           device_info.location)
         IN IF ~Contains(device_type, "MediaServer") THEN Value(None)
            ELSE IF content_directory_url = None THEN Value(None)
            ELSE Value(Some([name |-> name, udn |-> udn,
                             base_url |-> device_info.location,
                             content_directory_url |-> content_directory_url[1],
                             device |-> device_info]))

\* _create_media_server_from_ssdp: `except Exception: return None`
create_media_server_from_ssdp(device_info, response) ==
    LET r == CreateMediaServerBody(device_info, response)
    IN IF r.exc # "" /\ CatchesException(r.exc) THEN Value(None) ELSE r

(***************************************************************************)
(* The state after UPnPClient() and before any call.                       *)
(***************************************************************************)
Init ==
    /\ discovered_servers = <<>>
    /\ connected_server = None
    /\ pc = "idle"
    /\ ret = NoCall
    /\ timeout = 0
    /\ elapsed = 0
    /\ waited = 0
    /\ queue = <<>>
    /\ burst = 0
    /\ devices = <<>>
    /\ reached = {}
    /\ received = {}
    /\ failure = ""
    /\ repeats = FALSE
    /\ media_servers = <<>>
    /\ fetched = <<>>
    /\ max_depth = 0
    /\ stack = <<>>
    /\ media_files = <<>>
    /\ found_by = <<>>
    /\ requests = <<>>
    /\ server = [c \in {<<"0">>, <<"1">>, <<"2">>, <<"3">>} |-> None]
    /\ call = NoArgs
    /\ snapshot = <<>>
    /\ table = <<>>
    /\ task = NoTask
    /\ upnp_client = 0
    /\ playlist_gen = 0

(***************************************************************************)
(* discover_media_servers and _ssdp_discover.                              *)
(***************************************************************************)
\* an exception that reaches the outer try of discover_media_servers:
\* `except Exception: return []`, discovered_servers is not assigned
PropagateFromDiscover(exc) ==
    /\ pc' = "idle"
    /\ ret' = IF CatchesException(exc)
              THEN Return("discover_media_servers", <<>>)
              ELSE Raise("discover_media_servers", exc)
    /\ UNCHANGED discovered_servers

\* an exception that reaches the outer try of _ssdp_discover:
\* `except Exception:` logs, and `return devices` follows
PropagateFromSsdp(exc) ==
    IF CatchesException(exc)
    THEN /\ pc' = "resolve"
         /\ ret' = Running("discover_media_servers")
         /\ UNCHANGED discovered_servers
    ELSE PropagateFromDiscover(exc)

\* discover_media_servers(t) up to start_time = time.time(): the socket is
\* created, its timeout set and the M-SEARCH sent; fault is the exception of
\* socket.socket() or sock.sendto(), "" when both succeed
ssdp_open(t, fault) ==
    /\ pc = "idle"
    /\ timeout' = t
    /\ elapsed' = 0
    /\ waited' = 0
    /\ queue' = <<>>
    /\ burst' = 0
    /\ devices' = <<>>
    /\ reached' = {}
    /\ received' = {}
    /\ failure' = fault
    /\ repeats' = FALSE
    /\ media_servers' = <<>>
    /\ fetched' = <<>>
    /\ LET exc == IF fault # "" THEN fault
                  ELSE IF t < 0 THEN "ValueError"   \* sock.settimeout(t)
                  ELSE ""
       IN IF exc = ""
          THEN /\ pc' = "ssdp_loop"
               /\ ret' = Running("discover_media_servers")
               /\ UNCHANGED discovered_servers
          ELSE PropagateFromSsdp(exc)
    /\ UNCHANGED <<connected_server, walkVars>>
    /\ UNCHANGED <<generatorVars, appVars>>

\* `while time.time() - start_time < timeout:`
LoopContinues_Always(t, limit) == TRUE

LoopContinues(t, limit) == t < limit

ssdp_loop_check ==
    /\ pc = "ssdp_loop"
    /\ IF LoopContinues(elapsed, timeout)
       THEN pc' = "ssdp_recv" /\ waited' = 0
       ELSE pc' = "ssdp_closed" /\ UNCHANGED waited
    /\ UNCHANGED <<clientVars, ret, timeout, elapsed, queue, burst, devices,
                   reached, received, failure, repeats, resolveVars, walkVars>>
    /\ UNCHANGED <<generatorVars, appVars>>

\* the network delivers a datagram to the open socket
ssdp_datagram_arrives(r) ==
    /\ pc \in {"ssdp_loop", "ssdp_recv"}
    /\ burst < MaxBurst
    /\ queue' = Append(queue, r)
    /\ burst' = burst + 1
    /\ reached' = IF elapsed < timeout /\ WellFormedReply(r)
                  THEN reached \cup {r} ELSE reached
    /\ UNCHANGED <<clientVars, pc, ret, timeout, elapsed, waited, devices,
                   received, failure, repeats, resolveVars, walkVars>>
    /\ UNCHANGED <<generatorVars, appVars>>

\* recvfrom returns the oldest datagram; it is parsed and recorded
ssdp_recv_data ==
    /\ pc = "ssdp_recv"
    /\ queue # <<>>
    /\ devices' = AddDevice(devices, parse_ssdp_response(Head(queue)))
    /\ queue' = Tail(queue)
    /\ received' = received \cup {Head(queue)}
    /\ repeats' = (repeats \/ Head(queue) \in received)
    /\ pc' = "ssdp_loop"
    /\ UNCHANGED <<clientVars, ret, timeout, elapsed, waited, burst, reached,
                   failure, resolveVars, walkVars>>
    /\ UNCHANGED <<generatorVars, appVars>>

\* recvfrom has blocked for the socket timeout: socket.timeout
ssdp_recv_timeout ==
    /\ pc = "ssdp_recv"
    /\ queue = <<>>
    /\ waited = SocketTimeout(timeout)
    /\ LET h == RecvHandler("socket.timeout")
       IN IF h = "break"
          THEN pc' = "ssdp_closed" /\ UNCHANGED <<ret, discovered_servers>>
          ELSE IF h = "continue"
          THEN pc' = "ssdp_loop" /\ UNCHANGED <<ret, discovered_servers>>
          ELSE PropagateFromSsdp("socket.timeout")
    /\ failure' = "socket.timeout"
    /\ UNCHANGED <<connected_server, timeout, elapsed, waited, queue, burst,
                   devices, reached, received, repeats, resolveVars, walkVars>>
    /\ UNCHANGED <<generatorVars, appVars>>

\* recvfrom, with nothing to read, fails with another exception
ssdp_recv_error(exc) ==
    /\ pc = "ssdp_recv"
    /\ queue = <<>>
    /\ LET h == RecvHandler(exc)
       IN IF h = "break"
          THEN pc' = "ssdp_closed" /\ UNCHANGED <<ret, discovered_servers>>
          ELSE IF h = "continue"
          THEN pc' = "ssdp_loop" /\ UNCHANGED <<ret, discovered_servers>>
          ELSE PropagateFromSsdp(exc)
    /\ failure' = exc
    /\ UNCHANGED <<connected_server, timeout, elapsed, waited, queue, burst,
                   devices, reached, received, repeats, resolveVars, walkVars>>
    /\ UNCHANGED <<generatorVars, appVars>>

\* one second passes while recvfrom blocks on an empty buffer
Tick ==
    /\ pc = "ssdp_recv"
    /\ queue = <<>>
    /\ waited < SocketTimeout(timeout)
    /\ elapsed' = elapsed + 1
    /\ waited' = waited + 1
    /\ burst' = 0
    /\ UNCHANGED <<clientVars, pc, ret, timeout, queue, devices, reached,
                   received, failure, repeats, resolveVars, walkVars>>
    /\ UNCHANGED <<generatorVars, appVars>>

\* a reply reaches the host after the receive loop has ended but before
\* timeout seconds have passed since the M-SEARCH: nobody reads it
ssdp_reply_unread(r) ==
    /\ pc = "ssdp_closed"
    /\ elapsed < timeout
    /\ WellFormedReply(r)
    /\ r \notin reached
    /\ reached' = reached \cup {r}
    /\ UNCHANGED <<clientVars, pc, ret, timeout, elapsed, waited, queue, burst,
                   devices, received, failure, repeats, resolveVars, walkVars>>
    /\ UNCHANGED <<generatorVars, appVars>>

\* sock.close(); return devices: the clock and the socket are gone
ssdp_return ==
    /\ pc = "ssdp_closed"
    /\ pc' = "resolve"
    /\ elapsed' = 0
    /\ waited' = 0
    /\ queue' = <<>>
    /\ burst' = 0
    /\ reached' = {}
    /\ UNCHANGED <<clientVars, ret, timeout, devices, received, failure,
                   repeats, resolveVars, walkVars>>
    /\ UNCHANGED <<generatorVars, appVars>>

\* `if server: media_servers.append(server)`
AppendServer_Prepend(servers, found) ==
    IF found # None THEN <<found[1]>> \o servers ELSE servers

AppendServer(servers, found) ==
    IF found # None THEN Append(servers, found[1]) ELSE servers

\* one iteration of `for device_info in devices:`; response is what the
\* HTTP GET of the device's location gives
resolve_device(response) ==
    /\ pc = "resolve"
    /\ Len(fetched) < Len(devices)
    /\ LET device_info == devices[Len(fetched) + 1]
           r == create_media_server_from_ssdp(device_info, response)
       IN /\ fetched' = Append(fetched, response)
          /\ IF r.exc = ""
             THEN /\ media_servers' = AppendServer(media_servers, r.value)
                  /\ UNCHANGED <<pc, ret, discovered_servers>>
             ELSE IF CatchesException(r.exc)     \* except Exception: continue
             THEN UNCHANGED <<media_servers, pc, ret, discovered_servers>>
             ELSE /\ PropagateFromDiscover(r.exc)
                  /\ UNCHANGED media_servers
    /\ UNCHANGED <<connected_server, ssdpVars, walkVars>>
    /\ UNCHANGED <<generatorVars, appVars>>

\* self.discovered_servers = media_servers; return media_servers
\* a discovery run that drops the connection when it replaces the list
discover_finish_Disconnects ==
    /\ pc = "resolve"
    /\ Len(fetched) = Len(devices)
    /\ discovered_servers' = media_servers
    /\ connected_server' = None
    /\ ret' = Return("discover_media_servers", media_servers)
    /\ pc' = "idle"
    /\ UNCHANGED <<ssdpVars, resolveVars, walkVars>>
    /\ UNCHANGED <<generatorVars, appVars>>

discover_finish ==
    /\ pc = "resolve"
    /\ Len(fetched) = Len(devices)
    /\ discovered_servers' = media_servers
    /\ ret' = Return("discover_media_servers", media_servers)
    /\ pc' = "idle"
    /\ UNCHANGED <<connected_server, ssdpVars, resolveVars, walkVars>>
    /\ UNCHANGED <<generatorVars, appVars>>

(***************************************************************************)
(* connect_to_server.                                                      *)
(***************************************************************************)
Lower ==
    [c \in {"F", "R", "I", "T", "Z", "f", "r", "i", "t", "z", "n", "a", "s",
            "N", "A", "U", "k", "o", "w", "x"} |->
        CASE c = "F" -> "f" [] c = "R" -> "r" [] c = "I" -> "i"
          [] c = "T" -> "t" [] c = "Z" -> "z" [] c = "N" -> "n"
          [] c = "A" -> "a" [] c = "U" -> "u" [] OTHER -> c]

lower(text) == [i \in 1..Len(text) |-> Lower[text[i]]]

\* Python `a in b` on strings
IsSubstring(a, b) ==
    \E i \in 0..(Len(b) - Len(a)) : \A k \in 1..Len(a) : b[i + k] = a[k]

NameMatches_CaseSensitive(server_name, s) == IsSubstring(server_name, s.name)

NameMatches(server_name, s) == IsSubstring(lower(server_name), lower(s.name))

\* server_name is None, or Some(text)
connect_to_server(server_name) ==
    /\ pc = "idle"
    /\ IF discovered_servers = <<>>
       THEN /\ ret' = Return("connect_to_server", FALSE)
            /\ UNCHANGED connected_server
       ELSE IF server_name # None /\ server_name[1] # <<>>
       THEN IF \E i \in 1..Len(discovered_servers) :
                   NameMatches(server_name[1], discovered_servers[i])
            THEN LET first == CHOOSE i \in 1..Len(discovered_servers) :
                         /\ NameMatches(server_name[1], discovered_servers[i])
                         /\ \A j \in 1..(i - 1) :
                              ~NameMatches(server_name[1], discovered_servers[j])
                 IN /\ connected_server' = Some(discovered_servers[first])
                    /\ ret' = Return("connect_to_server", TRUE)
            ELSE /\ ret' = Return("connect_to_server", FALSE)
                 /\ UNCHANGED connected_server
       ELSE /\ connected_server' = Some(discovered_servers[1])
            /\ ret' = Return("connect_to_server", TRUE)
    /\ UNCHANGED <<discovered_servers, pc, ssdpVars, resolveVars, walkVars>>
    /\ call' = [op |-> "connect_to_server", server_name |-> server_name]
    /\ UNCHANGED <<snapshot, appVars>>

ServerNames == {None, Some(<<>>), Some(<<"f", "r", "i", "t", "z">>),
                Some(<<"N", "A">>), Some(<<"x">>)}

(***************************************************************************)
(* ContentDirectory Browse: responses, _parse_browse_response,             *)
(* _browse_container and _create_media_file_from_item.                     *)
(*                                                                         *)
(* A response is a transport error or an HTTP status with a body.  A body  *)
(* is unparsable, or the list of its elements in document order (what      *)
(* root.iter() yields), each with a tag and an optional text; the text of  *)
(* a Result element is a DIDL-Lite document, itself unparsable or a list   *)
(* of <container> and <item> elements in document order.                   *)
(***************************************************************************)
SUPPORTED_MIME_TYPES ==
    {"video/mp4", "video/avi", "video/x-msvideo", "video/quicktime",
     "video/x-ms-wmv", "video/x-flv", "video/webm", "video/x-matroska",
     "audio/mpeg", "audio/mp3", "audio/flac", "audio/wav", "audio/aac",
     "audio/ogg", "audio/x-ms-wma", "audio/mp4"}

VideoClass == <<"object", "item", "videoItem", "movie">>
AudioClass == <<"object", "item", "audioItem", "musicTrack">>
ImageClass == <<"object", "item", "imageItem", "photo">>
FolderClass == <<"object", "container", "storageFolder">>

\* str.startswith on dotted class names, token by token
StartsWith(text, prefix) ==
    /\ Len(prefix) <= Len(text)
    /\ \A i \in 1..Len(prefix) : text[i] = prefix[i]

Res(url, protocolInfo, size) ==
    [text |-> url, protocolInfo |-> protocolInfo, size |-> size,
     duration |-> None]

\* a <container> or <item> element of a DIDL-Lite document
Element(elem, id, title, class, res) ==
    [elem |-> elem, id |-> id, title |-> title, class |-> class, res |-> res]

\* ids are tuples, the empty tuple being the empty string
Folder(k) == Element("container", <<k>>, Some(<<"dir", k>>), Some(FolderClass), None)
\* a sub-container that the server lists as an <item> element
Shortcut(k) == Element("item", <<k>>, Some(<<"link", k>>), Some(FolderClass), None)
Video(c) ==
    Element("item", <<c, "v">>, Some(<<"video", c>>), Some(VideoClass),
            Some(Res(Some(<<"http://nas/", c, "v.mp4">>),
                     <<"http-get", "*", "video/mp4", "*">>, Some("1024"))))
Track(c) ==
    Element("item", <<c, "a">>, Some(<<"track", c>>), Some(AudioClass),
            Some(Res(Some(<<"http://nas/", c, "a.mp3">>),
                     <<"http-get", "*", "audio/mpeg", "*">>, None)))
Photo(c) ==
    Element("item", <<c, "p">>, Some(<<"photo", c>>), Some(ImageClass),
            Some(Res(Some(<<"http://nas/", c, "p.jpg">>),
                     <<"http-get", "*", "image/jpeg", "*">>, None)))

\* items that differ from Video(c) in one respect
Clip(c) ==                           \* upnp:class object.item
    Element("item", <<c, "clip">>, Some(<<"clip", c>>), Some(<<"object", "item">>),
            Some(Res(Some(<<"http://nas/", c, "clip.mp4">>),
                     <<"http-get", "*", "video/mp4", "*">>, None)))
VideoNoClass(c) ==                   \* no upnp:class element
    Element("item", <<c, "nc">>, Some(<<"video", c>>), None,
            Some(Res(Some(<<"http://nas/", c, "nc.mp4">>),
                     <<"http-get", "*", "video/mp4", "*">>, None)))
VideoOdd(c) ==                       \* a MIME type outside the supported set
    Element("item", <<c, "odd">>, Some(<<"video", c>>), Some(VideoClass),
            Some(Res(Some(<<"http://nas/", c, "odd.rm">>),
                     <<"http-get", "*", "application/vnd.rn-realmedia", "*">>,
                     None)))
VideoNoUrl(c) ==                     \* an empty <res> element
    Element("item", <<c, "nu">>, Some(<<"video", c>>), Some(VideoClass),
            Some(Res(None, <<"http-get", "*", "video/mp4", "*">>, None)))
VideoNoRes(c) ==                     \* no <res> element
    Element("item", <<c, "nr">>, Some(<<"video", c>>), Some(VideoClass), None)
VideoBadSize(c) ==                   \* a size attribute that is no integer
    Element("item", <<c, "bs">>, Some(<<"video", c>>), Some(VideoClass),
            Some(Res(Some(<<"http://nas/", c, "bs.mp4">>),
                     <<"http-get", "*", "video/mp4", "*">>, Some("big"))))
VideoBadInfo(c) ==                   \* a protocolInfo of fewer than 3 fields
    Element("item", <<c, "bi">>, Some(<<"video", c>>), Some(VideoClass),
            Some(Res(Some(<<"http://nas/", c, "bi.mp4">>), <<"http-get">>, None)))
VideoNoInfo(c) ==                    \* no protocolInfo: "".split(":") is [""]
    Element("item", <<c, "n">>, Some(<<"video", c>>), Some(VideoClass),
            Some(Res(Some(<<"http://nas/", c, "n.mp4">>), <<"">>, Some("1024"))))

XmlElem(tag, text) == [tag |-> tag, text |-> text]

\* elem.tag.endswith("Result")
EndsWithResult(tag) == tag \in {"Result"}

Didl(doc) == [well_formed |-> TRUE, doc |-> doc]
DidlMalformed == [well_formed |-> FALSE, doc |-> <<>>]

Http(code, well_formed, elements) ==
    [error |-> "", status_code |-> code, well_formed |-> well_formed,
     elements |-> elements]

BrowseOK(doc) ==
    Http(200, TRUE,
         <<XmlElem("Envelope", None), XmlElem("Body", None),
           XmlElem("BrowseResponse", None), XmlElem("Result", Some(Didl(doc))),
           XmlElem("NumberReturned", None), XmlElem("TotalMatches", None)>>)

FaultElements ==
    <<XmlElem("Envelope", None), XmlElem("Body", None), XmlElem("Fault", None),
      XmlElem("faultcode", None), XmlElem("faultstring", None),
      XmlElem("detail", None), XmlElem("UPnPError", None),
      XmlElem("errorCode", None)>>

\* a SOAP Fault as UPnP servers send it (HTTP 500), and the same envelope
\* sent with status 200, well-formed or cut short
Fault500 == Http(500, TRUE, FaultElements)
Fault200 == Http(200, TRUE, FaultElements)
FaultMalformed == Http(200, FALSE, FaultElements)
Http404 == Http(404, FALSE, <<>>)
TransportError == [error |-> "ConnectionError", status_code |-> 0,
                   well_formed |-> FALSE, elements |-> <<>>]
NoResultElement ==
    Http(200, TRUE, <<XmlElem("Envelope", None), XmlElem("Body", None),
                      XmlElem("BrowseResponse", None)>>)
EmptyResult ==
    Http(200, TRUE, <<XmlElem("Envelope", None), XmlElem("Body", None),
                      XmlElem("BrowseResponse", None), XmlElem("Result", None)>>)
BadDidl ==
    Http(200, TRUE, <<XmlElem("Envelope", None), XmlElem("Body", None),
                      XmlElem("BrowseResponse", None),
                      XmlElem("Result", Some(DidlMalformed))>>)

\* an error status sent with a complete Browse result as its body
ErrorStatusWithResult == [BrowseOK(<<Video("0")>>) EXCEPT !.status_code = 500]

IsFaultEnvelope(response) ==
    /\ response.error = ""
    /\ \E i \in 1..Len(response.elements) : response.elements[i].tag = "Fault"

FailedResponses == {Fault500, Fault200, FaultMalformed, Http404,
                    ErrorStatusWithResult, TransportError, NoResultElement,
                    EmptyResult, BadDidl}

\* SelectSeq with the test written out, so that it can be curried
RECURSIVE Filter(_, _)
Filter(s, keep) ==
    IF s = <<>> THEN <<>>
    ELSE IF Head(s) \in keep THEN <<Head(s)>> \o Filter(Tail(s), keep)
    ELSE Filter(Tail(s), keep)

\* the dict built for one <container> element
ContainerData(e) ==
    [id |-> e.id, title |-> get_xml_text(e.title, <<>>),
     upnp_class |-> get_xml_text(e.class, <<>>), type |-> "container",
     resource_url |-> <<>>, mime_type |-> "", size |-> None,
     duration |-> None]

\* res_elem.get("protocolInfo", "").split(":")[2]
MimeOf(res) ==
    IF Len(res.protocolInfo) < 3 THEN Throw("IndexError")
    ELSE Value(res.protocolInfo[3])

\* the dict built for one <item> element
ItemData(e) ==
    [id |-> e.id, title |-> get_xml_text(e.title, <<>>),
     upnp_class |-> get_xml_text(e.class, <<>>), type |-> "item",
     resource_url |-> IF e.res # None /\ e.res[1].text # None
                      THEN e.res[1].text[1] ELSE <<>>,
     mime_type |-> IF e.res # None THEN MimeOf(e.res[1]).value ELSE "",
     size |-> IF e.res # None THEN e.res[1].size ELSE None,
     duration |-> IF e.res # None THEN e.res[1].duration ELSE None]

\* the two findall loops: every <container> of the document, then every
\* <item>, each group in document order
ContainersThenItems_DocOrder(doc) ==
    [i \in 1..Len(doc) |->
        IF doc[i].elem = "container" THEN ContainerData(doc[i])
        ELSE ItemData(doc[i])]

ContainersThenItems(doc) ==
    LET containers == Filter(doc, {e \in Range(doc) : e.elem = "container"})
        items == Filter(doc, {e \in Range(doc) : e.elem = "item"})
    IN [i \in 1..Len(containers) |-> ContainerData(containers[i])]
       \o [i \in 1..Len(items) |-> ItemData(items[i])]

\* the try block of _parse_browse_response
ParseBrowseBody(response) ==
    IF ~response.well_formed THEN Throw("ParseError")
    ELSE IF ~\E i \in 1..Len(response.elements) :
                 EndsWithResult(response.elements[i].tag)
    THEN Value(<<>>)
    ELSE LET first == CHOOSE i \in 1..Len(response.elements) :
                 /\ EndsWithResult(response.elements[i].tag)
                 /\ \A j \in 1..(i - 1) : ~EndsWithResult(response.elements[j].tag)
             result_elem == response.elements[first]
         IN IF result_elem.text = None THEN Value(<<>>)
            ELSE IF ~result_elem.text[1].well_formed THEN Throw("ParseError")
            ELSE IF \E e \in Range(result_elem.text[1].doc) :
                        /\ e.elem = "item" /\ e.res # None
                        /\ MimeOf(e.res[1]).exc # ""
            THEN Throw("IndexError")
            ELSE Value(ContainersThenItems(result_elem.text[1].doc))

\* _parse_browse_response: `except Exception: return []`
parse_browse_response(response) ==
    LET r == ParseBrowseBody(response)
    IN IF r.exc # "" /\ CatchesException(r.exc) THEN Value(<<>>) ELSE r

\* _browse_container after the connection check: the POST, the status test
\* and the parse, inside `try ... except Exception: return []`
browse_container_NoStatusTest(response) ==
    LET r == IF response.error # "" THEN Throw(response.error)
             ELSE parse_browse_response(response)
    IN IF r.exc # "" /\ CatchesException(r.exc) THEN Value(<<>>) ELSE r

browse_container(response) ==
    LET r == IF response.error # "" THEN Throw(response.error)
             ELSE IF response.status_code # 200 THEN Value(<<>>)
             ELSE parse_browse_response(response)
    IN IF r.exc # "" /\ CatchesException(r.exc) THEN Value(<<>>) ELSE r

IsNumeric == [t \in {"1024", "big"} |-> t = "1024"]
IntOf == [t \in {"1024"} |-> 1024]

\* _create_media_file_from_item: None, or Some(UPnPMediaFile)
create_media_file_from_item_NoFilter(item) ==
    IF item.size # None /\ ~IsNumeric[item.size[1]]
    THEN None
    ELSE Some([id |-> item.id, title |-> item.title,
               mime_type |-> item.mime_type,
               size |-> IF item.size # None THEN Some(IntOf[item.size[1]])
                        ELSE None,
               duration |-> item.duration,
               url |-> item.resource_url, path |-> item.resource_url])

create_media_file_from_item(item) ==
    IF item.resource_url = <<>> \/ item.mime_type \notin SUPPORTED_MIME_TYPES
    THEN None
    ELSE IF item.size # None /\ ~IsNumeric[item.size[1]]
    THEN None                        \* int() raises ValueError, caught
    ELSE Some([id |-> item.id, title |-> item.title,
               mime_type |-> item.mime_type,
               size |-> IF item.size # None THEN Some(IntOf[item.size[1]])
                        ELSE None,
               duration |-> item.duration,
               url |-> item.resource_url, path |-> item.resource_url])

\* the two startswith tests of the item loop
IsMediaClass_VideoOnly(class) ==
    StartsWith(class, <<"object", "item", "videoItem">>)

IsMediaClass(class) ==
    \/ StartsWith(class, <<"object", "item", "audioItem">>)
    \/ StartsWith(class, <<"object", "item", "videoItem">>)

IsContainerClass(class) == StartsWith(class, <<"object", "container">>)

(***************************************************************************)
(* browse_media_files and _browse_container_recursive.                     *)
(* The media server answers a Browse of one container the same way for the *)
(* whole walk: `server` keeps the answer it gave, None before the first    *)
(* Browse of that container.                                               *)
(***************************************************************************)
ContainerIds == {<<"0">>, <<"1">>, <<"2">>, <<"3">>}
RootId == <<"0">>

Frame(container_id, current_depth, parent) ==
    [container_id |-> container_id, current_depth |-> current_depth,
     phase |-> "call", items |-> <<>>, i |-> 1, request |-> parent]

Top == stack[Len(stack)]
Pop == SubSeq(stack, 1, Len(stack) - 1)
ReplaceTop(f) == [stack EXCEPT ![Len(stack)] = f]

\* `if current_depth >= max_depth: return`
DepthExhausted_OffByOne(current_depth, limit) == current_depth > limit

DepthExhausted(current_depth, limit) == current_depth >= limit

\* `if child_id and current_depth + 1 < max_depth:`
Descend_TooStrict(child_id, current_depth, limit) ==
    child_id # <<>> /\ current_depth + 2 < limit

Descend_NoLimit(child_id, current_depth, limit) == child_id # <<>>

Descend(child_id, current_depth, limit) ==
    child_id # <<>> /\ current_depth + 1 < limit

BrowseRequest_Paged(container_id, current_depth, parent) ==
    [ObjectID |-> container_id, BrowseFlag |-> "BrowseDirectChildren",
     StartingIndex |-> 1000 * current_depth, RequestedCount |-> 1000,
     depth |-> current_depth, parent |-> parent]

BrowseRequest(container_id, current_depth, parent) ==
    [ObjectID |-> container_id, BrowseFlag |-> "BrowseDirectChildren",
     StartingIndex |-> 0, RequestedCount |-> 1000,
     depth |-> current_depth, parent |-> parent]   \* history fields

\* `if not self.connected_server: raise RuntimeError(...)`
NotConnected_Never(cs) == FALSE

NotConnected(cs) == cs = None

\* browse_media_files(container_id, limit) up to the first recursive call
browse_media_files(container_id, limit) ==
    /\ pc = "idle"
    /\ IF NotConnected(connected_server)
       THEN /\ ret' = Raise("browse_media_files", "RuntimeError")
            /\ UNCHANGED <<pc, walkVars>>
       ELSE /\ pc' = "walk"
            /\ max_depth' = limit
            /\ stack' = <<Frame(container_id, 0, 0)>>
            /\ media_files' = <<>>
            /\ found_by' = <<>>
            /\ requests' = <<>>
            /\ server' = [c \in ContainerIds |-> None]
            /\ ret' = Running("browse_media_files")
    /\ UNCHANGED <<clientVars, ssdpVars, resolveVars>>
    /\ UNCHANGED <<generatorVars, appVars>>

\* an exception inside the try block of _browse_container_recursive:
\* `except Exception:` logs and the call returns; uncaught, it leaves every
\* enclosing call and browse_media_files
PropagateFromWalk(exc) ==
    IF CatchesException(exc)
    THEN stack' = Pop /\ UNCHANGED <<pc, ret>>
    ELSE /\ stack' = <<>>
         /\ pc' = "idle"
         /\ ret' = Raise("browse_media_files", exc)

\* a call of _browse_container_recursive at or beyond the depth limit
walk_depth_limit ==
    /\ pc = "walk"
    /\ stack # <<>>
    /\ Top.phase = "call"
    /\ DepthExhausted(Top.current_depth, max_depth)
    /\ stack' = Pop
    /\ UNCHANGED <<clientVars, pc, ret, ssdpVars, resolveVars, max_depth,
                   media_files, found_by, requests, server>>
    /\ UNCHANGED <<generatorVars, appVars>>

\* `items = await self._browse_container(container_id)`: one Browse request
\* is sent and answered with response
walk_browse(response) ==
    /\ pc = "walk"
    /\ stack # <<>>
    /\ Top.phase = "call"
    /\ ~DepthExhausted(Top.current_depth, max_depth)
    /\ Top.container_id \in ContainerIds
    /\ IF NotConnected(connected_server)
       THEN \* _browse_container raises before its try block: nothing is sent
            /\ PropagateFromWalk("RuntimeError")
            /\ UNCHANGED <<server, requests>>
       ELSE /\ IF server[Top.container_id] = None
               THEN server' = [server EXCEPT ![Top.container_id] = Some(response)]
               ELSE server[Top.container_id] = Some(response) /\ UNCHANGED server
            /\ requests' = Append(requests, BrowseRequest(Top.container_id,
                                                          Top.current_depth,
                                                          Top.request))
            /\ LET r == browse_container(response)
               IN IF r.exc = ""
                  THEN /\ stack' = ReplaceTop([Top EXCEPT
                                                  !.phase = "loop",
                                                  !.items = r.value,
                                                  !.i = 1,
                                                  !.request = Len(requests) + 1])
                       /\ UNCHANGED <<pc, ret>>
                  ELSE PropagateFromWalk(r.exc)
    /\ UNCHANGED <<clientVars, ssdpVars, resolveVars, max_depth, media_files,
                   found_by>>
    /\ UNCHANGED <<generatorVars, appVars>>

\* one iteration of `for item in items:`
walk_item ==
    /\ pc = "walk"
    /\ stack # <<>>
    /\ Top.phase = "loop"
    /\ Top.i <= Len(Top.items)
    /\ LET item == Top.items[Top.i]
           next == [Top EXCEPT !.i = Top.i + 1]
       IN IF IsMediaClass(item.upnp_class)
          THEN LET media_file == create_media_file_from_item(item)
               IN /\ media_files' = IF media_file # None
                                    THEN Append(media_files, media_file[1])
                                    ELSE media_files
                  /\ found_by' = IF media_file # None
                                 THEN Append(found_by, Top.request)
                                 ELSE found_by
                  /\ stack' = ReplaceTop(next)
          ELSE IF /\ IsContainerClass(item.upnp_class)
                  /\ Descend(item.id, Top.current_depth, max_depth)
          THEN /\ stack' = Append(ReplaceTop(next),
                                  Frame(item.id, Top.current_depth + 1,
                                        Top.request))
               /\ UNCHANGED <<media_files, found_by>>
          ELSE /\ stack' = ReplaceTop(next)
               /\ UNCHANGED <<media_files, found_by>>
    /\ UNCHANGED <<clientVars, pc, ret, ssdpVars, resolveVars, max_depth,
                   requests, server>>
    /\ UNCHANGED <<generatorVars, appVars>>

\* the for loop of a call is over: the call returns
walk_return ==
    /\ pc = "walk"
    /\ stack # <<>>
    /\ Top.phase = "loop"
    /\ Top.i > Len(Top.items)
    /\ stack' = Pop
    /\ UNCHANGED <<clientVars, pc, ret, ssdpVars, resolveVars, max_depth,
                   media_files, found_by, requests, server>>
    /\ UNCHANGED <<generatorVars, appVars>>

\* the root call has returned: `return media_files`
browse_finish ==
    /\ pc = "walk"
    /\ stack = <<>>
    /\ pc' = "idle"
    /\ ret' = Return("browse_media_files", media_files)
    /\ UNCHANGED <<clientVars, ssdpVars, resolveVars, walkVars>>
    /\ UNCHANGED <<generatorVars, appVars>>

(***************************************************************************)
(* SpecSsdp: discovery runs of one client against every timing of the      *)
(* network, for timeouts -1..MaxTimeout.                                   *)
(***************************************************************************)
TimeoutArgs == (0 - 1)..MaxTimeout
SsdpDescriptors == {DescFritz, HttpStatus(404)}

NextSsdp ==
    \/ /\ ret = NoCall
       /\ \E t \in TimeoutArgs, fault \in {"", "OSError"} : ssdp_open(t, fault)
    \/ ssdp_loop_check
    \/ \E r \in SsdpReplies : ssdp_datagram_arrives(r)
    \/ ssdp_recv_data
    \/ ssdp_recv_timeout
    \/ \E exc \in {"OSError"} : ssdp_recv_error(exc)
    \/ Tick
    \/ \E r \in SsdpReplies : ssdp_reply_unread(r)
    \/ ssdp_return
    \/ \E response \in SsdpDescriptors : resolve_device(response)
    \/ discover_finish

SpecSsdp == Init /\ [][NextSsdp]_vars

(***************************************************************************)
(* SpecWalk: one walk by a client that has discovered and connected to the *)
(* Fritz media server, over every content the server can answer with.      *)
(***************************************************************************)
FritzServer ==
    create_media_server_from_ssdp(parse_ssdp_response(ReplyFritz)[1],
                                  DescFritz).value[1]

\* the sub-containers each container may list as <container> elements; the
\* third lists the root again
Kids == [c \in ContainerIds |->
            CASE c = <<"0">> -> {"1", "2"}
              [] c = <<"1">> -> {"2"}
              [] c = <<"2">> -> {"0"}
              [] OTHER -> {"3"}]

\* what a container may list: its sub-containers and a video, and for the
\* root also a photo and, as an <item> element, a fourth container, which
\* lists itself alone
Elements(c) ==
    {Folder(k) : k \in Kids[c]}
        \cup (IF c = <<"3">> THEN {} ELSE {Video(c[1])})
        \cup (IF c = RootId THEN {Photo(c[1]), Shortcut("3")} ELSE {})

\* the sequences of at most n distinct members of S
SeqsNoRepeat(S, n) ==
    UNION {{f \in [1..k -> S] : \A i, j \in 1..k : f[i] = f[j] => i = j} :
           k \in 0..n}

\* the answers to a Browse of container c: any document of its elements,
\* or a failure, of every kind for the root
WalkResponses(c) ==
    {BrowseOK(doc) : doc \in SeqsNoRepeat(Elements(c), MaxDocLen)}
        \cup (IF c = RootId THEN FailedResponses ELSE {Fault500, TransportError})

DepthArgs == (0 - 1)..MaxDepthArg

InitWalk ==
    /\ discovered_servers = <<FritzServer>>
    /\ connected_server = Some(FritzServer)
    /\ pc = "idle"
    /\ ret = Return("connect_to_server", TRUE)
    /\ timeout = 0
    /\ elapsed = 0
    /\ waited = 0
    /\ queue = <<>>
    /\ burst = 0
    /\ devices = <<>>
    /\ reached = {}
    /\ received = {}
    /\ failure = ""
    /\ repeats = FALSE
    /\ media_servers = <<>>
    /\ fetched = <<>>
    /\ max_depth = 0
    /\ stack = <<>>
    /\ media_files = <<>>
    /\ found_by = <<>>
    /\ requests = <<>>
    /\ server = [c \in ContainerIds |-> None]
    /\ call = [op |-> "connect_to_server", server_name |-> None]
    /\ snapshot = <<>>
    /\ table = <<>>
    /\ task = NoTask
    /\ upnp_client = 0
    /\ playlist_gen = 0

NextWalk ==
    \/ /\ ret.op = "connect_to_server"
       /\ \E limit \in DepthArgs : browse_media_files(RootId, limit)
    \/ walk_depth_limit
    \/ /\ pc = "walk" /\ stack # <<>>
       /\ \E response \in WalkResponses(Top.container_id) : walk_browse(response)
    \/ walk_item
    \/ walk_return
    \/ browse_finish

SpecWalk == InitWalk /\ [][NextWalk]_vars

\* the walk is scheduled: it runs on one coroutine that nothing suspends
\* for ever
SpecWalkFair == SpecWalk /\ WF_vars(pc = "walk" /\ NextWalk)

(***************************************************************************)
(* SpecItems: one walk, one or two levels deep, by a connected client over *)
(* documents of items of every kind.                                       *)
(***************************************************************************)
ItemElements(c) ==
    IF c = RootId
    THEN {Folder("1"), Video("0"), Clip("0"), VideoOdd("0"), VideoBadInfo("0"),
          VideoNoInfo("0")}
    ELSE IF c = <<"1">>
    THEN {Video("1"), Track("1"), VideoNoClass("1"), VideoNoUrl("1"),
          VideoNoRes("1"), VideoBadSize("1")}
    ELSE {}

ItemResponses(c) ==
    {BrowseOK(doc) : doc \in SeqsNoRepeat(ItemElements(c), MaxDocLen)}

NextItems ==
    \/ /\ ret.op = "connect_to_server"
       /\ \E limit \in {1, 2} : browse_media_files(RootId, limit)
    \/ /\ pc = "walk" /\ stack # <<>>
       /\ \E response \in ItemResponses(Top.container_id) : walk_browse(response)
    \/ walk_item
    \/ walk_return
    \/ browse_finish

SpecItems == InitWalk /\ [][NextItems]_vars

(***************************************************************************)
(* Spec: any sequence of discover_media_servers, connect_to_server and     *)
(* browse_media_files calls on one client, from its construction.          *)
(***************************************************************************)
ClientReplies == {ReplyFritz, ReplyNas}
ClientDescriptors == {DescFritz, DescNas, DescRenderer, DescMalformed,
                      HttpStatus(404), HttpError("ConnectionError")}
ClientResponses == {BrowseOK(<<Video("0")>>), Http404}

Next ==
    \/ \E fault \in {"", "OSError"} : ssdp_open(1, fault)
    \/ ssdp_loop_check
    \/ /\ queue = <<>>
       /\ \E r \in ClientReplies : ssdp_datagram_arrives(r)
    \/ ssdp_recv_data
    \/ ssdp_recv_timeout
    \/ Tick
    \/ ssdp_return
    \/ \E response \in ClientDescriptors : resolve_device(response)
    \/ discover_finish
    \/ \E server_name \in ServerNames : connect_to_server(server_name)
    \/ browse_media_files(RootId, 1)
    \/ \E response \in ClientResponses : walk_browse(response)
    \/ walk_item
    \/ walk_return
    \/ browse_finish

Spec == Init /\ [][Next]_vars

(***************************************************************************)
(* SpecSsdpFair: the timing of discovery runs, for timeouts -1..MaxTimeout  *)
(* and a network that sends, at any moment, a reply that parses or one     *)
(* that does not.  The receive loop is scheduled, and time passes.         *)
(***************************************************************************)
TimingReplies == {ReplyFritz, ReplyNotify}

NextSsdpTiming ==
    \/ /\ ret = NoCall
       /\ \E t \in TimeoutArgs, fault \in {"", "OSError"} : ssdp_open(t, fault)
    \/ ssdp_loop_check
    \/ \E r \in TimingReplies : ssdp_datagram_arrives(r)
    \/ ssdp_recv_data
    \/ ssdp_recv_timeout
    \/ \E exc \in {"OSError"} : ssdp_recv_error(exc)
    \/ Tick
    \/ \E r \in TimingReplies : ssdp_reply_unread(r)
    \/ ssdp_return
    \/ \E response \in SsdpDescriptors : resolve_device(response)
    \/ discover_finish

SpecSsdpFair ==
    /\ Init
    /\ [][NextSsdpTiming]_vars
    /\ WF_vars(ssdp_loop_check)
    /\ WF_vars(ssdp_recv_data)
    /\ WF_vars(ssdp_recv_timeout)
    /\ SF_vars(Tick)

(***************************************************************************)
(* SpecResolve: the descriptor loop of one discovery run that found the    *)
(* Fritz and NAS devices, over every descriptor response.                  *)
(***************************************************************************)
FritzInfo == parse_ssdp_response(ReplyFritz)[1]
NasInfo == parse_ssdp_response(ReplyNas)[1]

InitResolve ==
    /\ discovered_servers = <<>>
    /\ connected_server = None
    /\ pc = "resolve"
    /\ ret = Running("discover_media_servers")
    /\ timeout = 1
    /\ elapsed = 0
    /\ waited = 0
    /\ queue = <<>>
    /\ burst = 0
    /\ devices \in {<<FritzInfo, NasInfo>>, <<NasInfo, FritzInfo>>}
    /\ reached = {}
    /\ received = {ReplyFritz, ReplyNas}
    /\ failure = ""
    /\ repeats = FALSE
    /\ media_servers = <<>>
    /\ fetched = <<>>
    /\ max_depth = 0
    /\ stack = <<>>
    /\ media_files = <<>>
    /\ found_by = <<>>
    /\ requests = <<>>
    /\ server = [c \in ContainerIds |-> None]
    /\ call = NoArgs
    /\ snapshot = <<>>
    /\ table = <<>>
    /\ task = NoTask
    /\ upnp_client = 0
    /\ playlist_gen = 0

NextResolve ==
    \/ \E response \in DescriptorResponses : resolve_device(response)
    \/ discover_finish

SpecResolve == InitResolve /\ [][NextResolve]_vars

(***************************************************************************)
(* Properties of SSDP discovery.                                           *)
(***************************************************************************)
\* the headers of a reply as the client is to record them
InfoOf(r) ==
    [location |-> HeaderGet(r.headers, "LOCATION", ""),
     server |-> HeaderGet(r.headers, "SERVER", ""),
     st |-> HeaderGet(r.headers, "ST", ""),
     usn |-> HeaderGet(r.headers, "USN", "")]

SamePair(a, b) == a.location = b.location /\ a.usn = b.usn

C7_Claimed ==
    pc = "ssdp_closed" =>
        \A r \in reached : \E i \in 1..Len(devices) : devices[i] = InfoOf(r)

\* C8: discover_media_servers never raises, and returns the empty list when
\* no datagram was received.
C8_Theorem ==
    /\ ret.op = "discover_media_servers" => ret.kind # "raise"
    /\ (/\ pc = "idle"
        /\ ret.op = "discover_media_servers"
        /\ ret.kind = "return"
        /\ received = {}) => ret.value = <<>>

C8_Witness ==
    /\ pc = "idle"
    /\ ret = Return("discover_media_servers", <<>>)
    /\ failure = "socket.timeout"
    /\ received = {}

InReceiveLoop == pc \in {"ssdp_loop", "ssdp_recv"}

\* C9: every receive loop ends, and no recvfrom blocks for longer than the
\* socket timeout of min(timeout, 5) seconds.
C9_Theorem ==
    /\ [](InReceiveLoop => waited <= SocketTimeoutCap /\ waited <= timeout)
    /\ (InReceiveLoop ~> ~InReceiveLoop)

C9_Witness ==
    /\ pc = "ssdp_closed"
    /\ failure = "OSError"
    /\ received # {}
    /\ timeout > 0
    /\ elapsed >= timeout

(***************************************************************************)
(* Properties of browse_media_files without a connection.                  *)
(***************************************************************************)
\* C1: while connected_server is None, a browse_media_files call raises
\* RuntimeError at once: it sends no Browse request, starts no walk and
\* returns no list.
C1_Theorem ==
    /\ []((connected_server = None /\ ret.op = "browse_media_files") =>
              (/\ ret = Raise("browse_media_files", "RuntimeError")
               /\ pc = "idle"))
    /\ [](connected_server = None => requests = <<>>)
    /\ [][(/\ pc = "idle"
           /\ connected_server = None
           /\ ret'.op = "browse_media_files"
           /\ ret' # ret) =>
              (/\ ret' = Raise("browse_media_files", "RuntimeError")
               /\ pc' = "idle"
               /\ UNCHANGED <<clientVars, walkVars>>)]_vars

C1_Witness ==
    /\ ret = Raise("browse_media_files", "RuntimeError")
    /\ connected_server = None
    /\ discovered_servers # <<>>
    /\ requests = <<>>

(***************************************************************************)
(* Properties of descriptor resolution.                                    *)
(***************************************************************************)
\* the descriptor fetched for the i-th device describes a media server with
\* a ContentDirectory control URL
Resolves(i) ==
    LET response == fetched[i]
    IN /\ devices[i].location # ""
       /\ response.error = ""
       /\ response.status_code = 200
       /\ response.well_formed
       /\ response.device # None
       /\ Contains(get_xml_text(response.device[1].deviceType, <<>>),
                   "MediaServer")
       /\ response.device[1].serviceList # None
       /\ \E k \in 1..Len(response.device[1].serviceList[1]) :
             LET service == response.device[1].serviceList[1][k]
             IN /\ Contains(get_xml_text(service.serviceType, <<>>),
                            "ContentDirectory")
                /\ service.controlURL \notin {None, Some(<<>>), Some(<<EmptyUrl>>)}

RECURSIVE ResolvedFrom(_)
ResolvedFrom(i) ==
    IF i > Len(devices) THEN <<>>
    ELSE (IF Resolves(i) THEN <<devices[i]>> ELSE <<>>) \o ResolvedFrom(i + 1)

DiscoverReturned ==
    /\ pc = "idle"
    /\ ret.op = "discover_media_servers"
    /\ ret.kind = "return"
    /\ Len(fetched) = Len(devices)

\* C10: discover_media_servers returns one server for each device whose
\* descriptor resolved, in discovery order, and nothing for a device whose
\* fetch gave a transport error, a non-200 status or unparsable XML.
C10_Theorem ==
    /\ ret.op = "discover_media_servers" => ret.kind # "raise"
    /\ DiscoverReturned =>
          /\ [k \in 1..Len(ret.value) |-> ret.value[k].device] = ResolvedFrom(1)
          /\ discovered_servers = ret.value

C10_Witness ==
    /\ DiscoverReturned
    /\ Len(devices) = 2
    /\ fetched[1] \in {HttpError("ConnectionError"), HttpStatus(404), DescMalformed}
    /\ fetched[2] = DescNas
    /\ Len(ret.value) = 1
    /\ ret.value[1].device = devices[2]

(***************************************************************************)
(* Properties of the container walk.  requests records every Browse sent,  *)
(* each with the request that listed its container (0 for the root), and   *)
(* found_by records, for each returned media file, the request that listed *)
(* it.                                                                     *)
(***************************************************************************)
WalkReturned ==
    /\ pc = "idle"
    /\ ret.op = "browse_media_files"
    /\ ret.kind = "return"

\* a non-200 HTTP reply, or a reply whose body is a SOAP Fault envelope
FaultOrNon200(response) ==
    /\ response.error = ""
    /\ (response.status_code # 200 \/ IsFaultEnvelope(response))

\* C2: a Browse answered with a non-200 reply or a SOAP Fault envelope
\* yields no items and no exception, and a walk rooted at such a container
\* returns the empty list.
C2_Theorem ==
    /\ ret.op = "browse_media_files" => ret.kind # "raise"
    /\ \A c \in ContainerIds :
          (server[c] # None /\ FaultOrNon200(server[c][1])) =>
              browse_container(server[c][1]) = Value(<<>>)
    /\ \A i \in 1..Len(stack) :
          (/\ stack[i].phase = "loop"
           /\ FaultOrNon200(server[stack[i].container_id][1])) =>
              stack[i].items = <<>>
    /\ (WalkReturned /\ server[RootId] # None
          /\ FaultOrNon200(server[RootId][1])) => ret.value = <<>>

C2_Witness ==
    /\ WalkReturned
    /\ server[RootId] \in {Some(Fault200), Some(FaultMalformed), Some(Fault500)}
    /\ Len(requests) = 1
    /\ ret.value = <<>>

\* the number of requests between request i and the root's
RECURSIVE DepthOf(_)
DepthOf(i) ==
    IF requests[i].parent = 0 THEN 0 ELSE 1 + DepthOf(requests[i].parent)

\* C3: a Browse is sent for a container only if its depth below the root is
\* less than max_depth: none when max_depth <= 0, the root's alone when
\* max_depth = 1.
C3_Theorem ==
    /\ \A i \in 1..Len(requests) : DepthOf(i) < max_depth
    /\ max_depth <= 0 => requests = <<>>
    /\ max_depth = 1 =>
          /\ Len(requests) <= 1
          /\ \A i \in 1..Len(requests) : requests[i].ObjectID = RootId
          /\ WalkReturned => Len(requests) = 1

C3_Witness ==
    /\ WalkReturned
    /\ max_depth = 1
    /\ server[RootId] = Some(BrowseOK(<<Video("0"), Folder("1")>>))
    /\ Len(requests) = 1
    /\ server[<<"1">>] = None
    /\ Len(ret.value) = 1

\* the DIDL-Lite document a response carries, empty when it carries none
DocOf(response) ==
    IF /\ response.error = ""
       /\ response.status_code = 200
       /\ response.well_formed
       /\ \E i \in 1..Len(response.elements) :
             /\ response.elements[i].tag = "Result"
             /\ response.elements[i].text # None
             /\ response.elements[i].text[1].well_formed
    THEN LET i == CHOOSE k \in 1..Len(response.elements) :
                      response.elements[k].tag = "Result"
         IN response.elements[i].text[1].doc
    ELSE <<>>

\* what the server listed in answer to request i
Listed(i) == DocOf(server[requests[i].ObjectID][1])

\* the place of the <container> element with this id in request i's answer
PlaceOf(i, id) ==
    CHOOSE k \in 1..Len(Listed(i)) :
        Listed(i)[k].elem = "container" /\ Listed(i)[k].id = id

RECURSIVE IsAncestor(_, _)
IsAncestor(a, b) ==
    /\ requests[b].parent # 0
    /\ (requests[b].parent = a \/ IsAncestor(a, requests[b].parent))

\* request b descends from request a through a sub-container that a's
\* answer listed as a <container> element
RECURSIVE EnteredByContainer(_, _)
EnteredByContainer(a, b) ==
    /\ requests[b].parent # 0
    /\ IF requests[b].parent = a
       THEN \E k \in 1..Len(Listed(a)) :
               /\ Listed(a)[k].elem = "container"
               /\ Listed(a)[k].id = requests[b].ObjectID
       ELSE EnteredByContainer(a, requests[b].parent)

ListedAsContainer(i) ==
    /\ requests[i].parent # 0
    /\ EnteredByContainer(requests[i].parent, i)

Eligible(e) ==
    /\ e.elem = "item"
    /\ e.class # None
    /\ IsMediaClass(e.class[1])
    /\ e.res # None
    /\ e.res[1].text \notin {None, Some(<<>>)}
    /\ Len(e.res[1].protocolInfo) >= 3
    /\ e.res[1].protocolInfo[3] \in SUPPORTED_MIME_TYPES
    /\ e.res[1].size \in {None, Some("1024")}

\* the containers listed by the successfully browsed containers of S
ListedBy(S) ==
    LET listed == UNION {Range(DocOf(server[c][1])) :
                            c \in {x \in S : server[x] # None}}
    IN {e.id : e \in {x \in listed :
                         /\ x.class # None
                         /\ IsContainerClass(x.class[1])
                         /\ ~IsMediaClass(x.class[1])
                         /\ x.id # <<>>}}

\* the containers k levels below the root
RECURSIVE Level(_)
Level(k) == IF k = 0 THEN {RootId} ELSE ListedBy(Level(k - 1))

C5_Safe ==
    /\ ret.op = "browse_media_files" => ret.kind # "raise"
    /\ WalkReturned =>
          \A k \in 0..(max_depth - 1) : \A c \in Level(k) :
              /\ server[c] # None
              /\ \A e \in Range(DocOf(server[c][1])) :
                    Eligible(e) =>
                        \E m \in 1..Len(ret.value) : ret.value[m].id = e.id

\* C5: whichever Browse requests fail, the walk ends without an exception
\* and returns every eligible media item of every container within the
\* depth limit that is listed along a chain of successfully browsed
\* containers from the root.
C5_Theorem == [](C5_Safe) /\ (pc = "walk" ~> pc = "idle")

C5_Witness ==
    /\ WalkReturned
    /\ max_depth = 2
    /\ server[RootId] = Some(BrowseOK(<<Folder("1"), Folder("2")>>))
    /\ server[<<"1">>] \in {Some(r) : r \in FailedResponses}
    /\ server[<<"2">>] = Some(BrowseOK(<<Video("2")>>))
    /\ Len(ret.value) = 1
    /\ ret.value[1].id = <<"2", "v">>

(***************************************************************************)
(* Properties of the servers that discovery builds.                        *)
(***************************************************************************)
\* a descriptor that parses and names a device, none of whose services has
\* a serviceType containing ContentDirectory
LacksContentDirectory(response) ==
    /\ response.error = ""
    /\ response.status_code = 200
    /\ response.well_formed
    /\ response.device # None
    /\ \/ response.device[1].serviceList = None
       \/ \A k \in 1..Len(response.device[1].serviceList[1]) :
             LET service == response.device[1].serviceList[1][k]
             IN \/ service.serviceType = None
                \/ \A n \in 1..Len(service.serviceType[1]) :
                      service.serviceType[1][n] # "ContentDirectory"

\* C11: a descriptor without a ContentDirectory service gives no server,
\* also when its deviceType contains MediaServer.
C11_Theorem ==
    \A i \in 1..Len(fetched) :
        LacksContentDirectory(fetched[i]) =>
            /\ create_media_server_from_ssdp(devices[i], fetched[i]) = Value(None)
            /\ \A k \in 1..Len(media_servers) :
                  media_servers[k].device # devices[i]
            /\ \A k \in 1..Len(discovered_servers) :
                  discovered_servers[k].device # devices[i]

C11_Witness ==
    /\ DiscoverReturned
    /\ fetched = <<DescNoContentDirectory, DescNas>>
    /\ Contains(fetched[1].device[1].deviceType[1], "MediaServer")
    /\ Len(ret.value) = 1
    /\ ret.value[1].device = devices[2]

\* server s was built from the descriptor fetched for the i-th device
BuiltFrom(s, i) ==
    /\ s.device = devices[i]
    /\ s.base_url = devices[i].location
    /\ fetched[i].device # None
    /\ fetched[i].device[1].deviceType # None
    /\ \E n \in 1..Len(fetched[i].device[1].deviceType[1]) :
          fetched[i].device[1].deviceType[1][n] = "MediaServer"
    /\ fetched[i].device[1].serviceList # None
    /\ \E k \in 1..Len(fetched[i].device[1].serviceList[1]) :
          LET service == fetched[i].device[1].serviceList[1][k]
          IN /\ service.serviceType # None
             /\ \E n \in 1..Len(service.serviceType[1]) :
                   service.serviceType[1][n] = "ContentDirectory"
             /\ service.controlURL # None
             /\ service.controlURL[1] # <<>>
             /\ LET ref == service.controlURL[1][1]
                IN s.content_directory_url =
                       IF ref.origin # "" THEN ref
                       ELSE [origin |-> Origin[devices[i].location],
                             path |-> ref.path]

\* C12: every server that discovery builds comes from a descriptor whose
\* deviceType contains MediaServer, and its content_directory_url is the
\* non-empty absolute URL got by resolving a ContentDirectory service's
\* controlURL against the descriptor location.
C12_Theorem ==
    \A s \in Range(media_servers) \cup Range(discovered_servers) :
        /\ s.content_directory_url.origin # ""
        /\ s.content_directory_url.path # ""
        /\ \E i \in 1..Len(fetched) : BuiltFrom(s, i)

C12_Witness ==
    /\ DiscoverReturned
    /\ fetched = <<DescRenderer, DescFritz>>
    /\ Len(discovered_servers) = 1
    /\ discovered_servers[1].content_directory_url =
           Url(Origin[devices[2].location], "/upnp/control/cd")

(***************************************************************************)
(* Properties of the items a walk returns.                                 *)
(***************************************************************************)
\* the containers a Browse was sent for
Visited == {requests[i].ObjectID : i \in 1..Len(requests)}

\* the elements the server listed in its answers to the Browse requests
ListedElements == UNION {Range(DocOf(server[c][1])) : c \in Visited}

\* an <item> element with a non-empty resource URL of a supported MIME type
SupportedItem(e) ==
    /\ e.elem = "item"
    /\ e.res # None
    /\ e.res[1].text \notin {None, Some(<<>>)}
    /\ Len(e.res[1].protocolInfo) >= 3
    /\ e.res[1].protocolInfo[3] \in SUPPORTED_MIME_TYPES

\* upnp:class is object.item.audioItem or object.item.videoItem, or below
AudioOrVideo(e) ==
    /\ e.class # None
    /\ Len(e.class[1]) >= 3
    /\ e.class[1][1] = "object"
    /\ e.class[1][2] = "item"
    /\ e.class[1][3] \in {"audioItem", "videoItem"}

\* every <res> of the document has a protocolInfo of three fields or more
ParsesWhole(doc) ==
    \A e \in Range(doc) :
        (e.elem = "item" /\ e.res # None) => Len(e.res[1].protocolInfo) >= 3

InResult(e) == \E m \in 1..Len(ret.value) : ret.value[m].id = e.id

C14_Theorem ==
    /\ \A m \in 1..Len(media_files) :
          /\ media_files[m].mime_type \in SUPPORTED_MIME_TYPES
          /\ media_files[m].url # <<>>
          /\ \E e \in ListedElements :
                /\ e.id = media_files[m].id
                /\ e.res # None
                /\ e.res[1].text = Some(media_files[m].url)
                /\ e.res[1].protocolInfo[3] = media_files[m].mime_type
    /\ WalkReturned => ret.value = media_files

C14_Witness ==
    /\ WalkReturned
    /\ server[RootId] = Some(BrowseOK(<<VideoOdd("0"), Folder("1")>>))
    /\ server[<<"1">>] = Some(BrowseOK(<<VideoNoUrl("1"), Video("1")>>))
    /\ Len(ret.value) = 1
    /\ ret.value[1].mime_type = "video/mp4"
    /\ ret.value[1].url = <<"http://nas/", "1", "v.mp4">>

(***************************************************************************)
(* PlaylistGenerator.  A path or a name is a sequence of tokens: single    *)
(* characters, and the multi-character strings the generator looks for,   *)
(* each with its length in characters.                                     *)
(***************************************************************************)
TokenWidth(tok) ==
    CASE tok = "http://nas/" -> 11
      [] tok = "smb://nas/" -> 10
      [] tok = "DLNA-11-0" -> 9
      [] tok \in {"DLNA-0-0", "DLNA-8-0"} -> 8
      [] tok = "share" -> 5
      [] tok \in {".mp4", ".mkv", ".avi", ".AVI", "host"} -> 4
      [] tok \in {".rm", "dir"} -> 3
      [] tok = "._" -> 2
      [] OTHER -> 1

\* Python len() of a str
RECURSIVE len(_)
len(text) == IF text = <<>> THEN 0 ELSE TokenWidth(Head(text)) + len(Tail(text))

\* str.lower() on the last token: the extensions that occur
LowerToken(tok) == IF tok = ".AVI" THEN ".avi" ELSE tok

\* file.name.lower().endswith(ext)
EndsWithLower(name, ext) == name # <<>> /\ LowerToken(name[Len(name)]) = ext

\* the decimal digits of a row number
Digits(i) == IF i < 10 THEN <<ToString(i)>>
             ELSE <<ToString(i \div 10), ToString(i % 10)>>

Day == 24 * 60 * 60
LargeSize == 100 * 1024 * 1024
RecentWindow == 30 * Day

MediaFileDB(path, name, file_type, size, modified_time, smb_url) ==
    [path |-> path, name |-> name, file_type |-> file_type, size |-> size,
     modified_time |-> modified_time, smb_url |-> smb_url]

\* rows of the media_files table, i the row number that makes the path unique
Movie(i) ==
    MediaFileDB(<<"http://nas/", "DLNA-11-0", "/">> \o Digits(i) \o <<".mp4">>,
                <<"m">> \o Digits(i) \o <<".mp4">>, "video", LargeSize + 1,
                50 * Day, Some(<<"smb://nas/", "m">> \o Digits(i) \o <<".mp4">>))
Cartoon(i) ==
    MediaFileDB(<<"http://nas/", "DLNA-8-0", "/">> \o Digits(i) \o <<".AVI">>,
                <<" ", "c", ":", "#">> \o Digits(i) \o <<".AVI">>, "video",
                LargeSize, 50 * Day, Some(<<>>))
Hidden(i) ==
    MediaFileDB(<<"http://nas/", "v", "/">> \o Digits(i),
                <<"._", "(", "(", "(", "(", "(", "(">> \o Digits(i) \o <<".avi">>,
                "video", 4096, 10 * Day, None)
Junk(i) ==
    MediaFileDB(<<"http://nas/", "v", "/", "e-acute">> \o Digits(i) \o <<".rm">>,
                <<"._", "e-acute", "(", ")", "&">> \o Digits(i) \o <<".rm">>,
                "video", 4096, 10 * Day, None)
Brackets(i) ==
    MediaFileDB(<<"http://nas/", "DLNA-0-0", "/">> \o Digits(i) \o <<".mkv">>,
                <<"'", "(", ")", "[", "]", "&", "%">> \o Digits(i) \o <<".mkv">>,
                "video", 4096, 10 * Day, None)
Song(i) ==
    MediaFileDB(<<"http://nas/", "DLNA-11-0", "/", "s">> \o Digits(i) \o <<".mp4">>,
                <<"s">> \o Digits(i) \o <<".mp4">>, "audio", 4096, 50 * Day, None)
Legacy(i) ==
    MediaFileDB(<<"\\", "\\", "host", "\\", "share", "\\", "dir", "\\">>
                    \o Digits(i) \o <<".mp4">>,
                <<"x">> \o Digits(i) \o <<".mp4">>, "mp4", 4096, 10 * Day, None)

Kinds == {"Movie", "Cartoon", "Hidden", "Junk", "Brackets", "Song", "Legacy"}

Row(kind, i) ==
    CASE kind = "Movie" -> Movie(i)
      [] kind = "Cartoon" -> Cartoon(i)
      [] kind = "Hidden" -> Hidden(i)
      [] kind = "Junk" -> Junk(i)
      [] kind = "Brackets" -> Brackets(i)
      [] kind = "Song" -> Song(i)
      [] kind = "Legacy" -> Legacy(i)

\* the snapshots tried: n rows whose kinds repeat a pattern
MaxFiles == 22       \* rows in the largest snapshot
PatternLen == 2      \* length of the repeating pattern of row kinds

Snapshots(n) ==
    {[i \in 1..k |-> Row(p[((i - 1) % PatternLen) + 1], i)] :
        p \in [1..PatternLen -> Kinds], k \in 0..n}

\* [f.path for f in s]
Paths(s) == [i \in 1..Len(s) |-> s[i].path]

SpecialChars == <<"'", "(", ")", "[", "]", "&", "%">>
\* the characters above code point 127 that occur: "e-acute" is U+00E9
NonAscii == {"e-acute"}

\* 20 in scored_files[:20]; 3 in `if score >= 3`
TopCandidates == 20
ReasonableScore == 3

RECURSIVE Sum(_)
Sum(s) == IF s = <<>> THEN 0 ELSE Head(s) + Sum(Tail(s))

DlnaScore(file) ==
    IF Contains(file.path, "DLNA-11-0") THEN 3
    ELSE IF Contains(file.path, "DLNA-0-0") THEN 2
    ELSE IF Contains(file.path, "DLNA-8-0") THEN 1
    ELSE 0

CodecScore(file) ==
    IF EndsWithLower(file.name, ".mp4") THEN 3
    ELSE IF EndsWithLower(file.name, ".mkv") THEN 2
    ELSE IF EndsWithLower(file.name, ".avi") THEN 1
    ELSE 0

HiddenScore(file) ==
    IF ~(file.name # <<>> /\ file.name[1] = "._") THEN 2 ELSE 0

\* len(file.path) < avg_length, with avg_length = total / count
PathScore(file, total, count) ==
    IF len(file.path) * count < total THEN 1 ELSE 0

\* sum(1 for char in [...] if char in file.name)
special_char_count(name) ==
    Cardinality({k \in 1..Len(SpecialChars) : Contains(name, SpecialChars[k])})

SpecialScore(file) ==
    LET n == special_char_count(file.name)
    IN IF n <= 2 THEN 1 ELSE IF n > 5 THEN 0 - 1 ELSE 0

UnicodeScore(file) ==
    IF ~(\E k \in 1..Len(file.name) : file.name[k] \in NonAscii) THEN 1 ELSE 0

Score(file, total, count) ==
    DlnaScore(file) + CodecScore(file) + HiddenScore(file)
      + PathScore(file, total, count) + SpecialScore(file) + UnicodeScore(file)

\* list.sort(key=lambda x: x[1], reverse=True): stable, highest score first
RECURSIVE SortByScore_TiesReversed(_)
SortByScore_TiesReversed(scored) ==
    IF scored = <<>> THEN <<>>
    ELSE LET rest == SortByScore_TiesReversed(SubSeq(scored, 1, Len(scored) - 1))
             x == scored[Len(scored)]
             k == Cardinality({i \in 1..Len(rest) : rest[i][2] > x[2]})
         IN SubSeq(rest, 1, k) \o <<x>> \o SubSeq(rest, k + 1, Len(rest))

RECURSIVE SortByScore(_)
SortByScore(scored) ==
    IF scored = <<>> THEN <<>>
    ELSE LET rest == SortByScore(SubSeq(scored, 1, Len(scored) - 1))
             x == scored[Len(scored)]
             k == Cardinality({i \in 1..Len(rest) : rest[i][2] >= x[2]})
         IN SubSeq(rest, 1, k) \o <<x>> \o SubSeq(rest, k + 1, Len(rest))

IsVideo(f) == f.file_type = "video"

ScoredFiles(media_files_arg) ==
    LET video_files == SelectSeq(media_files_arg, IsVideo)
        total == Sum([i \in 1..Len(video_files) |-> len(video_files[i].path)])
        all == [i \in 1..Len(video_files) |->
                  <<video_files[i], Score(video_files[i], total, Len(video_files))>>]
        Reasonable(x) == x[2] >= ReasonableScore
    IN SelectSeq(all, Reasonable)

Truncate_NoCap(s, n) == s

Truncate(s, n) == SubSeq(s, 1, Min(n, Len(s)))

get_optimized_upnp_files(media_files_arg) ==
    LET sorted == SortByScore(ScoredFiles(media_files_arg))
    IN [i \in 1..Len(Truncate(sorted, TopCandidates)) |-> sorted[i][1]]

Playlist(name, description, file_paths) ==
    [name |-> name, description |-> description, file_paths |-> file_paths]

\* smart_playlists.append(...) when the list of paths is not empty
AppendIf(playlists, name, description, file_paths) ==
    IF file_paths # <<>>
    THEN Append(playlists, Playlist(name, description, file_paths))
    ELSE playlists

AudioExtensions == {"mp3", "flac", "wav", "aac", "ogg", "wma", "m4a"}
VideoExtensions == {"mp4", "avi", "mkv", "mov", "wmv", "flv", "webm", "m4v"}

CreateSmartPlaylists(media_files_arg, now) ==
    LET IsRecent(f) == f.modified_time > now - RecentWindow
        IsLarge(f) == f.size > LargeSize
        IsAudio(f) == f.file_type \in AudioExtensions
        IsVideoExt(f) == f.file_type \in VideoExtensions
        p1 == AppendIf(<<>>, <<"Recently Added">>,
                       <<"Files added in the last 30 days">>,
                       Paths(SelectSeq(media_files_arg, IsRecent)))
        p2 == AppendIf(p1, <<"Large Files">>, <<"Files larger than 100MB">>,
                       Paths(SelectSeq(media_files_arg, IsLarge)))
        p3 == AppendIf(p2, <<"Audio Collection">>, <<"All audio files">>,
                       Paths(SelectSeq(media_files_arg, IsAudio)))
        p4 == AppendIf(p3, <<"Video Collection">>, <<"All video files">>,
                       Paths(SelectSeq(media_files_arg, IsVideoExt)))
    IN AppendIf(p4, <<"UPnP Compatible Videos">>,
                <<"Video files optimized for reliable UPnP/DLNA playback in VLC">>,
                Paths(get_optimized_upnp_files(media_files_arg)))

\* the keys of a dict in insertion order: first occurrences
RECURSIVE Keys(_)
Keys(s) ==
    IF s = <<>> THEN <<>>
    ELSE LET rest == Keys(SubSeq(s, 1, Len(s) - 1))
         IN IF InSeq(s[Len(s)], rest) THEN rest ELSE Append(rest, s[Len(s)])

\* str.upper() of a file type
upper(file_type) ==
    CASE file_type = "video" -> "VIDEO"
      [] file_type = "audio" -> "AUDIO"
      [] file_type = "mp4" -> "MP4"
      [] OTHER -> file_type

\* str.split("\\"): the pieces between the separators
RECURSIVE split(_, _)
split(text, sep) ==
    IF ~InSeq(sep, text) THEN <<text>>
    ELSE LET k == CHOOSE i \in 1..Len(text) :
                      text[i] = sep /\ \A j \in 1..(i - 1) : text[j] # sep
         IN <<SubSeq(text, 1, k - 1)>> \o split(SubSeq(text, k + 1, Len(text)), sep)

HasDirectory(f) == Len(split(f.path, "\\")) > 3
DirectoryOf(f) == split(f.path, "\\")[4]

MoreThanOne_AtLeastOne(paths) == Len(paths) > 0

MoreThanOne(paths) == Len(paths) > 1

CreateAutoPlaylists(media_files_arg) ==
    LET types == Keys([i \in 1..Len(media_files_arg) |-> media_files_arg[i].file_type])
        TypePaths(t) == LET OfType(f) == f.file_type = t
                        IN Paths(SelectSeq(media_files_arg, OfType))
        by_type == [k \in 1..Len(types) |->
                      Playlist(<<"All ", upper(types[k]), " Files">>,
                               <<"Auto-generated playlist for all ", types[k], " files">>,
                               TypePaths(types[k]))]
        in_dirs == SelectSeq(media_files_arg, HasDirectory)
        dirs == Keys([i \in 1..Len(in_dirs) |-> DirectoryOf(in_dirs[i])])
        DirPaths(dir) == LET InDir(f) == DirectoryOf(f) = dir
                         IN Paths(SelectSeq(in_dirs, InDir))
        by_directory == [k \in 1..Len(dirs) |->
                           Playlist(<<"Directory: ">> \o dirs[k],
                                    <<"Auto-generated playlist for directory '">>
                                        \o dirs[k] \o <<"'">>,
                                    DirPaths(dirs[k]))]
        Kept(p) == MoreThanOne(p.file_paths)
    IN SelectSeq(by_type, Kept) \o SelectSeq(by_directory, Kept)

create_auto_playlists ==
    /\ pc = "idle"
    /\ ret' = Return("create_auto_playlists", CreateAutoPlaylists(snapshot))
    /\ call' = [op |-> "create_auto_playlists"]
    /\ UNCHANGED <<pc, snapshot, clientVars, ssdpVars, resolveVars, walkVars,
                   appVars>>

create_smart_playlists(now) ==
    /\ pc = "idle"
    /\ ret' = Return("create_smart_playlists", CreateSmartPlaylists(snapshot, now))
    /\ call' = [op |-> "create_smart_playlists", now |-> now]
    /\ UNCHANGED <<pc, snapshot, clientVars, ssdpVars, resolveVars, walkVars,
                   appVars>>

\* datetime.now() at the call: within 30 days of the newest rows, or later
Nows == {60 * Day, 100 * Day}

InitGenerator ==
    /\ discovered_servers = <<>>
    /\ connected_server = None
    /\ pc = "idle"
    /\ ret = NoCall
    /\ timeout = 0
    /\ elapsed = 0
    /\ waited = 0
    /\ queue = <<>>
    /\ burst = 0
    /\ devices = <<>>
    /\ reached = {}
    /\ received = {}
    /\ failure = ""
    /\ repeats = FALSE
    /\ media_servers = <<>>
    /\ fetched = <<>>
    /\ max_depth = 0
    /\ stack = <<>>
    /\ media_files = <<>>
    /\ found_by = <<>>
    /\ requests = <<>>
    /\ server = [c \in ContainerIds |-> None]
    /\ call = NoArgs
    /\ snapshot \in Snapshots(MaxFiles)
    /\ table = <<>>
    /\ task = NoTask
    /\ upnp_client = 0
    /\ playlist_gen = 0

NextGenerator ==
    \/ create_auto_playlists
    \/ \E now \in Nows : create_smart_playlists(now)

SpecGenerator == InitGenerator /\ [][NextGenerator]_vars

(***************************************************************************)
(* generate_m3u_content.  The M3U text is a sequence of tokens with "\n"   *)
(* between the lines.  The bullet of the source is written * and its arrow *)
(* is written ->.                                                          *)
(***************************************************************************)
Suffixes == {".mp4", ".mkv", ".avi", ".AVI", ".rm"}

\* Path(name).stem
Stem(name) ==
    IF Len(name) > 1 /\ name[Len(name)] \in Suffixes
    THEN SubSeq(name, 1, Len(name) - 1)
    ELSE name

\* str.strip()
RECURSIVE strip(_)
strip(text) ==
    IF text # <<>> /\ Head(text) = " " THEN strip(Tail(text))
    ELSE IF text # <<>> /\ text[Len(text)] = " "
    THEN strip(SubSeq(text, 1, Len(text) - 1))
    ELSE text

\* str.replace(old, new): the occurrences of old are found from the left and
\* do not overlap; the search goes on behind each one
RECURSIVE replace(_, _, _)
replace(text, old, new) ==
    IF Len(text) < Len(old) THEN text
    ELSE IF SubSeq(text, 1, Len(old)) = old
    THEN new \o replace(SubSeq(text, Len(old) + 1, Len(text)), old, new)
    ELSE <<Head(text)>> \o replace(Tail(text), old, new)

SpaceDashSpace == <<" ", "-", " ">>

\* the four replacements in the order of the code, then strip(); a title is
\* a tuple whose one-character members are its characters; "*" stands for
\* the bullet
sanitize_m3u_title(title) ==
    LET sanitized ==
          strip(replace(replace(replace(replace(title, SpaceDashSpace,
                                                <<" ", "*", " ">>),
                                        <<",">>, <<";">>),
                                <<":">>, <<".">>),
                        <<"#">>, <<"No.">>))
    IN IF sanitized = <<>> THEN <<"Unknown Title">> ELSE sanitized

\* PlaylistDB.file_paths is a text column: a JSON array, or some other text
JsonArray(items) == [kind |-> "array", items |-> items]
NotJson == [kind |-> "invalid", items |-> <<>>]

json_loads(text) ==
    IF text.kind = "array" THEN Value(text.items) ELSE Throw("JSONDecodeError")

PlaylistDB(name, description, file_paths) ==
    [name |-> name, description |-> description, file_paths |-> file_paths]

Settings(smb_enabled, smb_hostname, smb_username) ==
    [smb_enabled |-> smb_enabled, smb_hostname |-> smb_hostname,
     smb_username |-> smb_username]

UseSmb_IgnoreSettings(settings, media_file) ==
    media_file.smb_url # None /\ media_file.smb_url[1] # <<>>

UseSmb(settings, media_file) ==
    /\ settings.smb_enabled
    /\ settings.smb_hostname # ""
    /\ settings.smb_username # ""
    /\ media_file.smb_url # None
    /\ media_file.smb_url[1] # <<>>

\* media_lookup = {file.path: file for file in media_files}: the last row wins
InLookup(media_files_arg, path) ==
    \E i \in 1..Len(media_files_arg) : media_files_arg[i].path = path

Lookup(media_files_arg, path) ==
    media_files_arg[CHOOSE i \in 1..Len(media_files_arg) :
                       /\ media_files_arg[i].path = path
                       /\ \A j \in (i + 1)..Len(media_files_arg) :
                             media_files_arg[j].path # path]

HeaderLines(playlist) ==
    <<<<"#EXTM3U">>, <<"#PLAYLIST:">> \o playlist.name>>
      \o (IF playlist.description # <<>>
          THEN <<<<"# ">> \o playlist.description>> ELSE <<>>)
      \o <<<<"# ">>, <<"# TO OPEN IN VLC:">>,
           <<"# * Right-click this file -> Open With -> VLC">>,
           <<"# * OR drag this file into VLC window">>,
           <<"# * OR use Terminal: open -a VLC filename.m3u">>,
           <<"# (Double-clicking opens Apple Music, not VLC!)">>,
           <<>>>>

RECURSIVE EntryLines(_, _, _)
EntryLines(file_paths, media_files_arg, settings) ==
    IF file_paths = <<>> THEN <<>>
    ELSE LET file_path == Head(file_paths)
             rest == EntryLines(Tail(file_paths), media_files_arg, settings)
         IN IF InLookup(media_files_arg, file_path)
            THEN LET media_file == Lookup(media_files_arg, file_path)
                     title == sanitize_m3u_title(Stem(media_file.name))
                     url == IF UseSmb(settings, media_file)
                            THEN media_file.smb_url[1]
                            ELSE media_file.path
                 IN <<<<"#EXTINF:", "-1", ",">> \o title, url, <<>>>> \o rest
            ELSE rest

\* "\n".join(lines)
RECURSIVE join(_, _)
join(sep, lines) ==
    IF lines = <<>> THEN <<>>
    ELSE IF Len(lines) = 1 THEN lines[1]
    ELSE lines[1] \o <<sep>> \o join(sep, Tail(lines))

GenerateM3uContent(playlist, media_files_arg, settings) ==
    LET file_paths == json_loads(playlist.file_paths)
    IN IF file_paths.exc # "" THEN Throw(file_paths.exc)
       ELSE Value(join("\n", HeaderLines(playlist)
                               \o EntryLines(file_paths.value, media_files_arg,
                                             settings)))

generate_m3u_content(playlist, settings) ==
    /\ pc = "idle"
    /\ LET r == GenerateM3uContent(playlist, snapshot, settings)
       IN ret' = IF r.exc = "" THEN Return("generate_m3u_content", r.value)
                 ELSE Raise("generate_m3u_content", r.exc)
    /\ call' = [op |-> "generate_m3u_content", playlist |-> playlist,
                settings |-> settings]
    /\ UNCHANGED <<pc, snapshot, clientVars, ssdpVars, resolveVars, walkVars,
                   appVars>>

\* the playlists handed in: those the generator makes of the rows, one whose
\* file_paths name a row twice and a file that is no row, and one whose
\* file_paths column is no JSON
GonePath == <<"http://nas/", "g", "o", "n", "e">>

ToPlaylistDB(p) == PlaylistDB(p.name, p.description, JsonArray(p.file_paths))

PlaylistRows(rows) ==
    {ToPlaylistDB(p) : p \in Range(CreateAutoPlaylists(rows))}
      \cup UNION {{ToPlaylistDB(p) : p \in Range(CreateSmartPlaylists(rows, now))} :
                    now \in Nows}
      \cup {PlaylistDB(<<"Mix">>, <<>>,
                       JsonArray(Paths(rows) \o <<GonePath>> \o Paths(rows))),
            PlaylistDB(<<"Broken">>, <<"no list">>, NotJson)}

SettingsTried ==
    {Settings(FALSE, "", ""), Settings(TRUE, "nas", ""), Settings(TRUE, "nas", "u")}

MaxRows == 3         \* rows in the largest snapshot handed to the M3U writer

InitM3u ==
    /\ discovered_servers = <<>>
    /\ connected_server = None
    /\ pc = "idle"
    /\ ret = NoCall
    /\ timeout = 0
    /\ elapsed = 0
    /\ waited = 0
    /\ queue = <<>>
    /\ burst = 0
    /\ devices = <<>>
    /\ reached = {}
    /\ received = {}
    /\ failure = ""
    /\ repeats = FALSE
    /\ media_servers = <<>>
    /\ fetched = <<>>
    /\ max_depth = 0
    /\ stack = <<>>
    /\ media_files = <<>>
    /\ found_by = <<>>
    /\ requests = <<>>
    /\ server = [c \in ContainerIds |-> None]
    /\ call = NoArgs
    /\ snapshot \in Snapshots(MaxRows)
    /\ table = <<>>
    /\ task = NoTask
    /\ upnp_client = 0
    /\ playlist_gen = 0

NextM3u ==
    \E playlist \in PlaylistRows(snapshot), settings \in SettingsTried :
        generate_m3u_content(playlist, settings)

SpecM3u == InitM3u /\ [][NextM3u]_vars

(***************************************************************************)
(* connect_to_server.  call records the argument of the call.              *)
(***************************************************************************)
ConnectStep ==
    /\ pc = "idle"
    /\ pc' = "idle"
    /\ ret'.op = "connect_to_server"
    /\ call'.op = "connect_to_server"

HoldsName(name, text) ==
    \E i \in 0..(Len(text) - Len(name)) :
        \A k \in 1..Len(name) : Lower[text[i + k]] = Lower[name[k]]

Hits(server_name, servers) ==
    {i \in 1..Len(servers) :
        server_name = None \/ HoldsName(server_name[1], servers[i].name)}

\* C20: connect_to_server returns True exactly when it sets connected_server
\* to a discovered server: the first one when no name is given, otherwise
\* the first one in discovery order whose name contains the given name,
\* letter case ignored.  When it returns False, connected_server is left as
\* it was.  discovered_servers is never changed.
C20_Theorem ==
    [][ConnectStep =>
         LET hits == Hits(call'.server_name, discovered_servers)
         IN /\ discovered_servers' = discovered_servers
            /\ ret'.kind = "return"
            /\ ret'.value = (hits # {})
            /\ hits # {} =>
                 \E i \in hits :
                    /\ \A j \in hits : i <= j
                    /\ connected_server' = Some(discovered_servers[i])
            /\ hits = {} => connected_server' = connected_server]_vars

C20_Witness ==
    /\ pc = "idle"
    /\ ret = Return("connect_to_server", TRUE)
    /\ call = [op |-> "connect_to_server", server_name |-> Some(<<"N", "A">>)]
    /\ Len(discovered_servers) = 2
    /\ discovered_servers[1].name = FritzName
    /\ discovered_servers[2].name = NasName
    /\ connected_server = Some(discovered_servers[2])

(***************************************************************************)
(* Properties of the playlist generator.  snapshot is the list of rows    *)
(* handed to the generator, ret its result.                                *)
(***************************************************************************)
SmartReturned ==
    /\ pc = "idle"
    /\ ret.op = "create_smart_playlists"
    /\ call.op = "create_smart_playlists"

\* the file_paths of the "UPnP Compatible Videos" playlist, <<>> without one
UpnpPlaylists ==
    {k \in 1..Len(ret.value) : ret.value[k].name = <<"UPnP Compatible Videos">>}

UpnpList ==
    IF UpnpPlaylists = {} THEN <<>>
    ELSE ret.value[CHOOSE k \in UpnpPlaylists : TRUE].file_paths

\* the row of the snapshot with the given path, and the score of each row
RowOf(path) == CHOOSE i \in 1..Len(snapshot) : snapshot[i].path = path

VideoRows == {i \in 1..Len(snapshot) : snapshot[i].file_type = "video"}

RowScores ==
    LET total == Sum([i \in 1..Len(snapshot) |->
                        IF i \in VideoRows THEN len(snapshot[i].path) ELSE 0])
        count == Cardinality(VideoRows)
    IN [i \in 1..Len(snapshot) |-> Score(snapshot[i], total, count)]

\* C15: in the "UPnP Compatible Videos" list no item precedes an item with a
\* higher score, and two items with equal scores stand in the order they
\* have in the input snapshot.
C15_Theorem ==
    SmartReturned =>
        LET scores == RowScores
            rows == [a \in 1..Len(UpnpList) |-> RowOf(UpnpList[a])]
        IN \A a, b \in 1..Len(rows) :
              a < b =>
                 /\ scores[rows[a]] >= scores[rows[b]]
                 /\ scores[rows[a]] = scores[rows[b]] => rows[a] < rows[b]

C15_Witness ==
    /\ SmartReturned
    /\ Len(snapshot) = 4
    /\ snapshot[1] = Cartoon(1)
    /\ snapshot[2] = Movie(2)
    /\ UpnpList = Paths(<<Movie(2), Movie(4), Cartoon(1), Cartoon(3)>>)

\* C16: the "UPnP Compatible Videos" playlist holds exactly min(20, q) items,
\* q being the number of rows of file type "video" that score at least 3:
\* only such rows are in it, each once, none left out scores higher than one
\* that is in it, and there is no such playlist exactly when q = 0.
C16_Theorem ==
    SmartReturned =>
        LET scores == RowScores
            qualifying == {i \in VideoRows : scores[i] >= 3}
            q == Cardinality(qualifying)
            rows == [a \in 1..Len(UpnpList) |-> RowOf(UpnpList[a])]
            listed == {rows[a] : a \in 1..Len(rows)}
        IN /\ Cardinality(UpnpPlaylists) = (IF q = 0 THEN 0 ELSE 1)
           /\ Len(UpnpList) = (IF q < 20 THEN q ELSE 20)
           /\ Cardinality(listed) = Len(UpnpList)
           /\ \A a \in 1..Len(UpnpList) :
                \E i \in qualifying : snapshot[i].path = UpnpList[a]
           /\ \A i \in qualifying \ listed :
                \A j \in listed : scores[i] <= scores[j]

C16_Witness ==
    /\ SmartReturned
    /\ Len(snapshot) = 22
    /\ snapshot[1] = Movie(1)
    /\ snapshot[2] = Cartoon(2)
    /\ Len(UpnpList) = 20
    /\ InSeq(Cartoon(18).path, UpnpList)
    /\ ~InSeq(Cartoon(20).path, UpnpList)
    /\ ~InSeq(Cartoon(22).path, UpnpList)

\* the number of characters of a name that are special characters
Occurrences(name) ==
    Cardinality({k \in 1..Len(name) :
                    \E c \in 1..Len(SpecialChars) : name[k] = SpecialChars[c]})

BySpecialOccurrences(name) ==
    IF Occurrences(name) <= 2 THEN 1
    ELSE IF Occurrences(name) > 5 THEN 0 - 1
    ELSE 0

\* C17: the special-character component of a video row's score is +1 when
\* the characters ' ( ) [ ] & % occur at most 2 times in the file name, -1
\* when they occur more than 5 times and 0 when they occur 3, 4 or 5 times;
\* the score of every row is the sum of the other components and this one.
C17_Claimed ==
    SmartReturned =>
        \A i \in VideoRows :
            /\ SpecialScore(snapshot[i]) = BySpecialOccurrences(snapshot[i].name)
            /\ (\E a \in 1..Len(UpnpList) : UpnpList[a] = snapshot[i].path)
                  => RowScores[i] - SpecialScore(snapshot[i])
                        + BySpecialOccurrences(snapshot[i].name) >= 3

AutoReturned ==
    /\ pc = "idle"
    /\ ret.op = "create_auto_playlists"
    /\ call.op = "create_auto_playlists"

\* the rows of a file type, and the file-type playlists made for it
RowsOfType(t) == {i \in 1..Len(snapshot) : snapshot[i].file_type = t}

TypePlaylists(t) ==
    {k \in 1..Len(ret.value) :
        ret.value[k].description = <<"Auto-generated playlist for all ", t, " files">>}

\* the a-th of a set of rows, in input order
NthRow(rows, a) ==
    CHOOSE i \in rows : Cardinality({j \in rows : j <= i}) = a

\* C18: create_auto_playlists returns one file-type playlist for each file
\* type with more than one row and none for a file type with one row; the
\* playlist lists the paths of the rows of that type in input order; every
\* playlist returned, of a type or of a directory, has at least two paths.
C18_Theorem ==
    AutoReturned =>
        /\ \A i \in 1..Len(snapshot) :
              LET t == snapshot[i].file_type
                  rows == RowsOfType(t)
              IN IF Cardinality(rows) > 1
                 THEN /\ Cardinality(TypePlaylists(t)) = 1
                      /\ \A k \in TypePlaylists(t) :
                            /\ Len(ret.value[k].file_paths) = Cardinality(rows)
                            /\ \A a \in 1..Cardinality(rows) :
                                  ret.value[k].file_paths[a]
                                     = snapshot[NthRow(rows, a)].path
                 ELSE TypePlaylists(t) = {}
        /\ \A k \in 1..Len(ret.value) : Len(ret.value[k].file_paths) >= 2

C18_Witness ==
    /\ AutoReturned
    /\ snapshot = <<Legacy(1), Song(2), Legacy(3)>>
    /\ Len(ret.value) = 2
    /\ ret.value[1].name = <<"All ", "MP4", " Files">>
    /\ ret.value[1].file_paths = <<Legacy(1).path, Legacy(3).path>>
    /\ ret.value[2].name = <<"Directory: ", "share">>
    /\ ret.value[2].file_paths = <<Legacy(1).path, Legacy(3).path>>

M3uReturned ==
    /\ pc = "idle"
    /\ ret.op = "generate_m3u_content"
    /\ ret.kind = "return"
    /\ call.op = "generate_m3u_content"

\* the M3U re-parsed: the lines that follow an #EXTINF line
UrlLines(content) ==
    LET lines == split(content, "\n")
        IsUrl(k) == k > 1 /\ lines[k - 1] # <<>> /\ lines[k - 1][1] = "#EXTINF:"
        at == {k \in 1..Len(lines) : IsUrl(k)}
    IN [a \in 1..Cardinality(at) |-> lines[NthRow(at, a)]]

\* the file_paths of the playlist handed in that are paths of rows handed in
KnownPaths(file_paths) ==
    LET at == {k \in 1..Len(file_paths) :
                  \E i \in 1..Len(snapshot) : snapshot[i].path = file_paths[k]}
    IN [a \in 1..Cardinality(at) |-> file_paths[NthRow(at, a)]]

SmbConfigured(settings) ==
    settings.smb_enabled /\ settings.smb_hostname # "" /\ settings.smb_username # ""

\* C19 as claimed: the URL lines of the M3U, read in order, are the
\* playlist's file_paths.
C19_Claimed ==
    M3uReturned => UrlLines(ret.value) = call.playlist.file_paths.items

\* C19: the URL lines of the M3U, read in order, are those file_paths of the
\* playlist that are paths of media files handed in, in the same order and
\* as often; a path of no media file has no entry.  Each line is the path
\* itself, or the smb_url of its media file when SMB is enabled with a host
\* name and a user name and that smb_url is not empty.
C19_Theorem ==
    M3uReturned =>
        LET urls == UrlLines(ret.value)
            known == KnownPaths(call.playlist.file_paths.items)
        IN /\ Len(urls) = Len(known)
           /\ \A a \in 1..Len(known) :
                \E i \in 1..Len(snapshot) :
                   /\ snapshot[i].path = known[a]
                   /\ urls[a] = IF /\ SmbConfigured(call.settings)
                                   /\ snapshot[i].smb_url \notin {None, Some(<<>>)}
                                THEN snapshot[i].smb_url[1]
                                ELSE known[a]

C19_Witness ==
    /\ M3uReturned
    /\ snapshot = <<Movie(1), Cartoon(2)>>
    /\ call.settings = Settings(FALSE, "", "")
    /\ call.playlist.file_paths
          = JsonArray(<<Movie(1).path, Cartoon(2).path, GonePath,
                        Movie(1).path, Cartoon(2).path>>)
    /\ UrlLines(ret.value)
          = <<Movie(1).path, Cartoon(2).path, Movie(1).path, Cartoon(2).path>>

\* an element of the answer, other than e, that the walker would take up:
\* a media item it would return, or a container it would browse
TakenUp(c, e) ==
    \/ /\ SupportedItem(e) /\ AudioOrVideo(e)
       /\ e.res[1].size \in {None, Some("1024")}
       /\ InResult(e)
    \/ /\ e.elem = "container"
       /\ e.id \in Visited

Droppable(e) ==
    e.elem = "item" /\ e.res # None /\ Len(e.res[1].protocolInfo) < 3

\* C21: an <item> whose <res> has no protocolInfo, or one of fewer than
\* three fields, is dropped on its own: the media items of the same answer
\* are in the result of the walk and its containers are browsed, when the
\* depth limit allows it.
C21_Claimed ==
    WalkReturned =>
        \A i \in 1..Len(requests) :
            LET c == requests[i].ObjectID
                doc == DocOf(server[c][1])
            IN (\E d \in Range(doc) : Droppable(d)) =>
                  \A e \in Range(doc) :
                     \/ TakenUp(c, e)
                     \/ ~(\/ /\ SupportedItem(e) /\ AudioOrVideo(e)
                             /\ e.res[1].size \in {None, Some("1024")}
                          \/ /\ e.elem = "container"
                             /\ requests[i].depth + 1 < max_depth)

\* the ids that the answer of a browsed container gives the walker to
\* descend into
ChildIds(c) ==
    {e.id : e \in {x \in Range(DocOf(server[c][1])) :
                      /\ x.class # None
                      /\ IsContainerClass(x.class[1])
                      /\ ~IsMediaClass(x.class[1])
                      /\ x.id # <<>>}}

\* the browsed part of the server's container graph is a tree: no container
\* is listed by two containers, and the root by none
IsTree ==
    /\ \A c \in Visited : RootId \notin ChildIds(c)
    /\ \A c, d \in Visited : c # d => ChildIds(c) \cap ChildIds(d) = {}

\* C22: every Browse request of a walk asks for the direct children from
\* index 0, 1000 at most, and no second request follows for the same listing
\* of a container; in a container tree no container is browsed twice.
C22_Theorem ==
    /\ \A i \in 1..Len(requests) :
          /\ requests[i].BrowseFlag = "BrowseDirectChildren"
          /\ requests[i].StartingIndex = 0
          /\ requests[i].RequestedCount = 1000
    /\ \A i, j \in 1..Len(requests) :
          (/\ i < j
           /\ requests[i].ObjectID = requests[j].ObjectID) =>
              /\ requests[i].parent # requests[j].parent
              /\ ~IsTree
    /\ \A a, b \in 1..Len(stack) :
          (a < b /\ stack[a].phase = "loop" /\ stack[b].phase = "loop") =>
              stack[a].request < stack[b].request

C22_Witness ==
    /\ WalkReturned
    /\ IsTree
    /\ max_depth = 3
    /\ server[RootId] = Some(BrowseOK(<<Folder("1"), Video("0")>>))
    /\ server[<<"1">>] = Some(BrowseOK(<<Video("1"), Folder("2")>>))
    /\ server[<<"2">>] = Some(BrowseOK(<<Video("2")>>))
    /\ Len(requests) = 3
    /\ Len(ret.value) = 3

\* the largest number of Browse requests of a walk of the given depth over
\* answers of at most MaxDocLen elements
RECURSIVE MostRequests(_)
MostRequests(depth) ==
    IF depth <= 0 THEN 0 ELSE 1 + MaxDocLen * MostRequests(depth - 1)

\* a container that lists itself, or one that lists an ancestor, is browsed
ListsItself == \E c \in Visited : c \in ChildIds(c)
ListsAncestor ==
    \E i, j \in 1..Len(requests) :
        IsAncestor(i, j) /\ requests[i].ObjectID \in ChildIds(requests[j].ObjectID)

\* C23: the nesting of the recursive browse calls never exceeds max_depth,
\* also when a container lists itself or an ancestor, the number of Browse
\* requests stays below a bound that max_depth gives, and every walk ends.
C23_Theorem ==
    /\ [](/\ Len(stack) <= (IF max_depth < 1 THEN 1 ELSE max_depth)
          /\ \A a \in 1..Len(stack) :
                /\ stack[a].current_depth = a - 1
                /\ stack[a].phase = "loop" => a <= max_depth
          /\ Len(requests) <= MostRequests(max_depth))
    /\ (pc = "walk" ~> (pc = "idle" /\ stack = <<>>))

C23_Witness ==
    /\ WalkReturned
    /\ max_depth = 3
    /\ ListsItself
    /\ ListsAncestor
    /\ server[RootId] = Some(BrowseOK(<<Folder("2"), Shortcut("3")>>))
    /\ server[<<"2">>] = Some(BrowseOK(<<Folder("0")>>))
    /\ server[<<"3">>] = Some(BrowseOK(<<Folder("3")>>))
    /\ Len(requests) = 5

(***************************************************************************)
(* The client's two fields across discovery and connection.                *)
(***************************************************************************)
\* C26 as claimed: connected_server is None or an element of the current
\* discovered_servers list.
C26_Claimed ==
    connected_server = None \/ InSeq(connected_server[1], discovered_servers)

\* C26: connected_server changes only in a connect_to_server call that
\* returns True, to an element of the discovered_servers list of that moment;
\* discovered_servers changes only when a discovery run ends, and that step
\* leaves connected_server as it is, so after a re-discovery connected_server
\* need not be in the current list.
C26_Theorem ==
    [][/\ connected_server' # connected_server =>
            /\ ConnectStep
            /\ ret'.value = TRUE
            /\ connected_server' # None
            /\ InSeq(connected_server'[1], discovered_servers)
            /\ discovered_servers' = discovered_servers
       /\ discovered_servers' # discovered_servers =>
            /\ pc = "resolve"
            /\ ret'.op = "discover_media_servers"
            /\ connected_server' = connected_server]_vars

C26_Witness ==
    /\ pc = "idle"
    /\ ret.op = "discover_media_servers"
    /\ connected_server # None
    /\ ~InSeq(connected_server[1], discovered_servers)

(***************************************************************************)
(* SpecTitle: the M3U of a playlist of one media file, for every file name *)
(* of at most MaxTitleLen characters of TitleChars before its suffix.      *)
(***************************************************************************)
TitleChars == {" ", "-", ",", ":", "#", "a"}

MaxTitleLen == 6     \* characters of the longest file name stem tried

Titles == UNION {[1..n -> TitleChars] : n \in 0..MaxTitleLen}

Titled(title) ==
    MediaFileDB(<<"http://nas/", "t">>, title \o <<".mp4">>, "video", 4096,
                50 * Day, None)

InitTitle ==
    /\ discovered_servers = <<>>
    /\ connected_server = None
    /\ pc = "idle"
    /\ ret = NoCall
    /\ timeout = 0
    /\ elapsed = 0
    /\ waited = 0
    /\ queue = <<>>
    /\ burst = 0
    /\ devices = <<>>
    /\ reached = {}
    /\ received = {}
    /\ failure = ""
    /\ repeats = FALSE
    /\ media_servers = <<>>
    /\ fetched = <<>>
    /\ max_depth = 0
    /\ stack = <<>>
    /\ media_files = <<>>
    /\ found_by = <<>>
    /\ requests = <<>>
    /\ server = [c \in ContainerIds |-> None]
    /\ call = NoArgs
    /\ snapshot \in {<<Titled(title)>> : title \in Titles}
    /\ table = <<>>
    /\ task = NoTask
    /\ upnp_client = 0
    /\ playlist_gen = 0

NextTitle ==
    generate_m3u_content(PlaylistDB(<<"One">>, <<>>, JsonArray(Paths(snapshot))),
                         Settings(FALSE, "", ""))

SpecTitle == InitTitle /\ [][NextTitle]_vars

\* the M3U re-parsed: what follows "#EXTINF:-1," on each #EXTINF line
ExtinfTitles(content) ==
    LET lines == split(content, "\n")
    IN {SubSeq(lines[k], 4, Len(lines[k])) :
          k \in {j \in 1..Len(lines) :
                    lines[j] # <<>> /\ lines[j][1] = "#EXTINF:"}}

\* C25 as claimed: the title written after "#EXTINF:-1," is not empty and
\* holds no ",", no ":", no "#" and no " - " (space, dash, space).
C25_Claimed ==
    M3uReturned =>
        \A title \in ExtinfTitles(ret.value) :
            /\ title # <<>>
            /\ \A k \in 1..Len(title) : title[k] \notin {",", ":", "#"}
            /\ ~IsSubstring(SpaceDashSpace, title)

(***************************************************************************)
(* The media_files table (database.py).  table is the list of its rows in  *)
(* id order; a row is a MediaFileDB with the share it was cached for.      *)
(***************************************************************************)
Stored(share_name, file) == [share_name |-> share_name, file |-> file]

\* str.startswith("video/") and str.startswith("audio/") on the MIME types
\* of the model
VideoMimeTypes ==
    {"video/mp4", "video/avi", "video/x-msvideo", "video/quicktime",
     "video/x-ms-wmv", "video/x-flv", "video/webm", "video/x-matroska"}
AudioMimeTypes ==
    {"audio/mpeg", "audio/mp3", "audio/flac", "audio/wav", "audio/aac",
     "audio/ogg", "audio/x-ms-wma", "audio/mp4"}

\* a file type named after the subtype, as the extension whitelists expect
get_file_type_from_mime_Subtype(mime_type) ==
    IF mime_type = "video/mp4" THEN "mp4"
    ELSE IF mime_type = "audio/mpeg" THEN "mp3"
    ELSE "unknown"

get_file_type_from_mime(mime_type) ==
    IF mime_type = "" THEN "unknown"
    ELSE IF mime_type \in VideoMimeTypes THEN "video"
    ELSE IF mime_type \in AudioMimeTypes THEN "audio"
    ELSE "unknown"

\* upnp_path.split("/")[-1]: a URL of the model is its origin, ending in "/",
\* followed by the tokens of its path
FileNameOf(upnp_path) ==
    LET pieces == split(Tail(upnp_path), "/")
    IN pieces[Len(pieces)]

\* _convert_upnp_path_to_smb with an empty smb_password; the names of the
\* model need no URL quoting
convert_upnp_path_to_smb(upnp_path, smb_hostname, smb_username) ==
    IF upnp_path = <<>> \/ smb_hostname = "" THEN None
    ELSE Some(<<"smb://">>
                \o (IF smb_username # "" THEN <<smb_username, "@">> ELSE <<>>)
                \o <<smb_hostname, "/Media/">> \o FileNameOf(upnp_path))

\* the MediaFileDB built of one file object: a UPnPMediaFile (it has a url
\* attribute) or a legacy file object
CacheRow(file, settings, now) ==
    IF "url" \in DOMAIN file
    THEN MediaFileDB(file.path, file.title,
                     get_file_type_from_mime(file.mime_type),
                     IF file.size = None THEN 0 ELSE file.size[1],
                     now,
                     IF /\ settings.smb_enabled
                        /\ settings.smb_hostname # ""
                        /\ settings.smb_username # ""
                     THEN convert_upnp_path_to_smb(file.path,
                                                   settings.smb_hostname,
                                                   settings.smb_username)
                     ELSE None)
    ELSE MediaFileDB(file.path, file.name, file.file_type, file.size,
                     file.modified_time, None)

\* the loop over media_files with seen_paths, every file kept
SkipSeenPaths_KeepAll(files) == files

\* the loop over media_files with seen_paths: a file whose path was seen
\* before is skipped
RECURSIVE SkipSeenPaths(_)
SkipSeenPaths(files) ==
    IF files = <<>> THEN <<>>
    ELSE LET rest == SkipSeenPaths(SubSeq(files, 1, Len(files) - 1))
             file == files[Len(files)]
         IN IF \E k \in 1..Len(rest) : rest[k].path = file.path
            THEN rest
            ELSE Append(rest, file)

\* an exception that leaves the transaction without rolling it back: the
\* DELETE stays
AfterFailure_NoRollback(tbl, share_name) ==
    SelectSeq(tbl, LAMBDA row : row.share_name # share_name)

\* `except Exception: await session.rollback(); raise`
AfterFailure(tbl, share_name) == tbl

\* cache_media_files: DELETE the rows of the share, add one row per file not
\* skipped, commit.  The INSERT fails when a path is not unique in the
\* table; fault is a failure of the database itself, or ""
CacheMediaFiles(tbl, files, share_name, settings, now, fault) ==
    LET kept == SelectSeq(tbl, LAMBDA row : row.share_name # share_name)
        firsts == SkipSeenPaths(files)
        db_files == [k \in 1..Len(firsts) |->
                        Stored(share_name, CacheRow(firsts[k], settings, now))]
        added == kept \o db_files
        unique == \A i, j \in 1..Len(added) :
                      added[i].file.path = added[j].file.path => i = j
    IN IF fault # "" THEN [exc |-> fault, table |-> AfterFailure(tbl, share_name)]
       ELSE IF ~unique
       THEN [exc |-> "IntegrityError", table |-> AfterFailure(tbl, share_name)]
       ELSE [exc |-> "", table |-> added]

cache_media_files(files, share_name, settings, now, fault) ==
    /\ pc = "idle"
    /\ task = NoTask
    /\ LET r == CacheMediaFiles(table, files, share_name, settings, now, fault)
       IN /\ table' = r.table
          /\ ret' = IF r.exc = "" THEN Return("cache_media_files", <<>>)
                    ELSE Raise("cache_media_files", r.exc)
    /\ call' = [op |-> "cache_media_files", share_name |-> share_name]
    /\ UNCHANGED <<pc, snapshot, clientVars, ssdpVars, resolveVars, walkVars,
                   task, upnp_client, playlist_gen>>

\* get_media_files() without filters: every row, in id order
GetMediaFiles(tbl) == [k \in 1..Len(tbl) |-> tbl[k].file]

\* GET /playlists/auto/generate up to the rows it hands to the generator;
\* create_auto_playlists and create_smart_playlists follow
generate_auto_playlists ==
    /\ pc = "idle"
    /\ task = NoTask
    /\ IF playlist_gen = 0
       THEN /\ ret' = Raise("generate_auto_playlists", "HTTP 503")
            /\ UNCHANGED snapshot
       ELSE /\ ret' = Return("get_media_files", GetMediaFiles(table))
            /\ snapshot' = GetMediaFiles(table)
    /\ call' = [op |-> "generate_auto_playlists"]
    /\ UNCHANGED <<pc, clientVars, ssdpVars, resolveVars, walkVars, appVars>>

(***************************************************************************)
(* SpecCatalog: the table filled by cache_media_files with lists of UPnP   *)
(* media files, for two shares, and read by GET /playlists/auto/generate.  *)
(***************************************************************************)
\* an item with the resource URL of Video(c) under another id and title
Alias(c) ==
    Element("item", <<c, "alias">>, Some(<<"alias", c>>), Some(VideoClass),
            Some(Res(Some(<<"http://nas/", c, "v.mp4">>),
                     <<"http-get", "*", "video/mp4", "*">>, Some("1024"))))

\* the UPnPMediaFile the walker makes of an item it returns
UPnPMediaFile(e) == create_media_file_from_item(ItemData(e))[1]

CatalogFiles ==
    {UPnPMediaFile(e) : e \in {Video("0"), Alias("0"), Video("1"), Track("1")}}

MaxCached == 2       \* files in the longest list handed to cache_media_files

FileLists == UNION {[1..n -> CatalogFiles] : n \in 0..MaxCached}

Shares == {"UPnP", "SMB"}

CacheSettings == {Settings(FALSE, "", ""), Settings(TRUE, "nas", "u")}

\* datetime.now() while the rows are built
CacheTimes == {50 * Day}

DatabaseFaults == {"", "OperationalError"}

InitCatalog ==
    /\ discovered_servers = <<FritzServer>>
    /\ connected_server = Some(FritzServer)
    /\ pc = "idle"
    /\ ret = NoCall
    /\ timeout = 0
    /\ elapsed = 0
    /\ waited = 0
    /\ queue = <<>>
    /\ burst = 0
    /\ devices = <<>>
    /\ reached = {}
    /\ received = {}
    /\ failure = ""
    /\ repeats = FALSE
    /\ media_servers = <<>>
    /\ fetched = <<>>
    /\ max_depth = 0
    /\ stack = <<>>
    /\ media_files = <<>>
    /\ found_by = <<>>
    /\ requests = <<>>
    /\ server = [c \in ContainerIds |-> None]
    /\ call = NoArgs
    /\ snapshot = <<>>
    /\ table = <<>>
    /\ task = NoTask
    /\ upnp_client = 1
    /\ playlist_gen = 1

\* the catalog is filled, then read
NextCatalog ==
    \/ /\ snapshot = <<>>
       /\ \E files \in FileLists, share_name \in Shares,
             settings \in CacheSettings,
             now \in CacheTimes, fault \in DatabaseFaults :
             cache_media_files(files, share_name, settings, now, fault)
    \/ generate_auto_playlists
    \/ create_auto_playlists
    \/ \E now \in Nows : create_smart_playlists(now)

SpecCatalog == InitCatalog /\ [][NextCatalog]_vars

CacheStep ==
    /\ pc = "idle"
    /\ ret'.op = "cache_media_files"
    /\ call'.op = "cache_media_files"

RowsOfShare(tbl, share_name) ==
    SelectSeq(tbl, LAMBDA row : row.share_name = share_name)

RowsOfOthers(tbl, share_name) ==
    SelectSeq(tbl, LAMBDA row : row.share_name # share_name)

\* C30: a call of cache_media_files that fails while inserting, as it does
\* when a new path already exists under another share, raises the error to
\* its caller and leaves the media_files table as it was before the call,
\* the rows of the target share that the call had deleted included.
C30_Theorem ==
    [][CacheStep =>
         /\ ret'.kind \in {"return", "raise"}
         /\ ret'.kind = "raise" => table' = table
         /\ ret'.kind = "return" =>
               \A i, j \in 1..Len(table') :
                  table'[i].file.path = table'[j].file.path => i = j]_vars

C30_Witness ==
    /\ pc = "idle"
    /\ ret.op = "cache_media_files"
    /\ ret.kind = "raise"
    /\ ret.value = <<"IntegrityError">>
    /\ call.op = "cache_media_files"
    /\ call.share_name = "UPnP"
    /\ Len(RowsOfShare(table, "UPnP")) = 2
    /\ Len(RowsOfShare(table, "SMB")) = 1

(***************************************************************************)
(* The application (main.py).  upnp_client and playlist_gen are its        *)
(* globals; discovered_servers and connected_server are the fields of the  *)
(* client that upnp_client names.  A handler that awaits is two actions,   *)
(* task naming the handler that is suspended.                              *)
(***************************************************************************)
MaxClients == 3      \* UPnPClient objects built during one run

\* a UPnPClient() that no global named before
NewClient == 1 + (IF upnp_client > playlist_gen THEN upnp_client ELSE playlist_gen)

NasServer ==
    create_media_server_from_ssdp(parse_ssdp_response(ReplyNas)[1],
                                  DescNas).value[1]

\* connect_to_server(server_name) on a client whose discovered_servers is
\* servers: the server it connects to, or None when it returns False
ConnectTo(server_name, servers) ==
    IF servers = <<>> THEN None
    ELSE IF server_name # None /\ server_name[1] # <<>>
    THEN LET hits == {i \in 1..Len(servers) : NameMatches(server_name[1], servers[i])}
         IN IF hits = {} THEN None
            ELSE Some(servers[CHOOSE i \in hits : \A j \in hits : i <= j])
    ELSE Some(servers[1])

\* discover_fritz_box_media_server() on the servers its own client found
DiscoverFritzBox(servers) ==
    LET IsFritz(s) == \/ IsSubstring(<<"f", "r", "i", "t", "z">>, lower(s.name))
                      \/ IsSubstring(<<"a", "v", "m">>, lower(s.name))
        hits == {i \in 1..Len(servers) : IsFritz(servers[i])}
    IN IF hits # {} THEN Some(servers[CHOOSE i \in hits : \A j \in hits : i <= j])
       ELSE IF servers # <<>> THEN Some(servers[1])
       ELSE None

\* `if server_name:`
Named(server_name) == server_name # None /\ server_name[1] # <<>>

\* POST /upnp/reconnect up to its await of the discovery
reconnect_begin(server_name) ==
    /\ pc = "idle"
    /\ task = NoTask
    /\ NewClient <= MaxClients
    /\ task' = [op |-> "reconnect_upnp_server", server_name |-> server_name]
    /\ ret' = Running("reconnect_upnp_server")
    /\ call' = [op |-> "reconnect_upnp_server", server_name |-> server_name,
                upnp_client |-> upnp_client,
                connected_server |-> connected_server,
                playlist_gen |-> playlist_gen]
    /\ IF Named(server_name)
       THEN /\ upnp_client' = NewClient      \* before the discovery
            /\ discovered_servers' = <<>>
            /\ connected_server' = None
       ELSE UNCHANGED <<upnp_client, clientVars>>
    /\ UNCHANGED <<pc, snapshot, ssdpVars, resolveVars, walkVars, table,
                   playlist_gen>>

\* the rest of POST /upnp/reconnect; found is the list of servers that the
\* discovery returns
reconnect_end(found) ==
    /\ pc = "idle"
    /\ task.op = "reconnect_upnp_server"
    /\ task' = NoTask
    /\ IF Named(task.server_name)
       THEN LET hit == ConnectTo(task.server_name, found)
            IN /\ discovered_servers' = found
               /\ UNCHANGED upnp_client
               /\ IF hit # None
                  THEN /\ connected_server' = hit
                       /\ playlist_gen' = upnp_client
                       /\ ret' = Return("reconnect_upnp_server", 200)
                  ELSE /\ UNCHANGED <<connected_server, playlist_gen>>
                       /\ ret' = Raise("reconnect_upnp_server", "HTTP 404")
       ELSE LET hit == DiscoverFritzBox(found)
            IN IF hit # None
               THEN /\ upnp_client' = NewClient
                    /\ discovered_servers' = <<hit[1]>>
                    /\ connected_server' = ConnectTo(None, <<hit[1]>>)
                    /\ playlist_gen' = NewClient
                    /\ ret' = Return("reconnect_upnp_server", 200)
               ELSE /\ UNCHANGED <<upnp_client, clientVars, playlist_gen>>
                    /\ ret' = Raise("reconnect_upnp_server", "HTTP 404")
    /\ UNCHANGED <<pc, call, snapshot, ssdpVars, resolveVars, walkVars, table>>

\* GET /health
Healthy == upnp_client # 0 /\ connected_server # None

health_check ==
    /\ pc = "idle"
    /\ task.op # "scan_media_files"
    /\ ret' = IF Healthy THEN Return("health_check", 200)
              ELSE Raise("health_check", "HTTP 503")
    /\ UNCHANGED <<pc, call, snapshot, clientVars, ssdpVars, resolveVars,
                   walkVars, appVars>>

\* scan_media_files up to its await of browse_media_files, which follows
scan_start ==
    /\ pc = "idle"
    /\ task = NoTask
    /\ IF upnp_client = 0
       THEN /\ ret' = Return("scan_media_files", <<>>)
            /\ UNCHANGED task
       ELSE /\ ret' = Running("scan_media_files")
            /\ task' = [op |-> "scan_media_files"]
    /\ call' = [op |-> "scan_media_files"]
    /\ UNCHANGED <<pc, snapshot, clientVars, ssdpVars, resolveVars, walkVars,
                   table, upnp_client, playlist_gen>>

\* the files are cached whatever the walk returned
ShouldCache_Always(files) == TRUE

\* `if media_files:`
ShouldCache(files) == files # <<>>

\* the rest of scan_media_files, once browse_media_files has returned or
\* raised: ret becomes the outcome of cache_media_files when it was called
scan_finish(settings, now, fault) ==
    /\ pc = "idle"
    /\ task.op = "scan_media_files"
    /\ ret.op = "browse_media_files"
    /\ task' = NoTask
    /\ IF ret.kind = "raise"
       THEN /\ ret' = Return("scan_media_files", <<>>)
            /\ UNCHANGED table
       ELSE IF ShouldCache(ret.value)
       THEN LET r == CacheMediaFiles(table, ret.value, "UPnP", settings, now,
                                     fault)
            IN /\ table' = r.table
               /\ ret' = IF r.exc = "" THEN Return("cache_media_files", <<>>)
                         ELSE Raise("cache_media_files", r.exc)
       ELSE /\ ret' = Return("scan_media_files", <<>>)
            /\ UNCHANGED table
    /\ UNCHANGED <<pc, call, snapshot, clientVars, ssdpVars, resolveVars,
                   walkVars, upnp_client, playlist_gen>>

(***************************************************************************)
(* SpecApp: the running application: scans of a server of two containers,  *)
(* reconnects and health checks, from the states the start-up leaves.      *)
(***************************************************************************)
\* settings.max_scan_depth: scanning switched off, or two levels
ScanDepths == {0, 2}

\* what the server answers to a Browse of container c
AppResponses(c) ==
    IF c = RootId
    THEN {BrowseOK(<<Folder("1"), Video("0")>>), BrowseOK(<<Video("0")>>),
          BrowseOK(<<>>), Fault500}
    ELSE {BrowseOK(<<Video("0"), Video("1")>>), BrowseOK(<<Alias("0")>>),
          TransportError}

\* what a discovery finds
DiscoveryResults ==
    {<<>>, <<FritzServer>>, <<NasServer>>, <<NasServer, FritzServer>>}

\* rows of earlier calls: of a scan that found an item the server no longer
\* lists, and of another share, one of them with the path of an item
EarlierRow ==
    CacheRow(UPnPMediaFile(Video("2")), Settings(FALSE, "", ""), 10 * Day)

Tables ==
    {<<>>,
     <<Stored("UPnP", EarlierRow), Stored("SMB", Legacy(1))>>,
     <<Stored("SMB", CacheRow(UPnPMediaFile(Video("1")),
                              Settings(FALSE, "", ""), 10 * Day)),
       Stored("UPnP", EarlierRow)>>}

\* after the start-up: no server found; a client that did not find the
\* configured server; a connected client and its playlist generator
InitApp ==
    /\ \/ /\ upnp_client = 0
          /\ playlist_gen = 0
          /\ discovered_servers = <<>>
          /\ connected_server = None
       \/ /\ upnp_client = 1
          /\ playlist_gen = 0
          /\ discovered_servers = <<NasServer>>
          /\ connected_server = None
       \/ /\ upnp_client = 1
          /\ playlist_gen = 1
          /\ discovered_servers = <<FritzServer>>
          /\ connected_server = Some(FritzServer)
    /\ table \in Tables
    /\ task = NoTask
    /\ pc = "idle"
    /\ ret = NoCall
    /\ timeout = 0
    /\ elapsed = 0
    /\ waited = 0
    /\ queue = <<>>
    /\ burst = 0
    /\ devices = <<>>
    /\ reached = {}
    /\ received = {}
    /\ failure = ""
    /\ repeats = FALSE
    /\ media_servers = <<>>
    /\ fetched = <<>>
    /\ max_depth = 0
    /\ stack = <<>>
    /\ media_files = <<>>
    /\ found_by = <<>>
    /\ requests = <<>>
    /\ server = [c \in ContainerIds |-> None]
    /\ call = NoArgs
    /\ snapshot = <<>>

NextApp ==
    \/ scan_start
    \/ /\ task.op = "scan_media_files"
       /\ ret.op = "scan_media_files" /\ ret.kind = "running"
       /\ \E limit \in ScanDepths : browse_media_files(RootId, limit)
    \/ walk_depth_limit
    \/ /\ pc = "walk" /\ stack # <<>>
       /\ \E response \in AppResponses(Top.container_id) : walk_browse(response)
    \/ walk_item
    \/ walk_return
    \/ browse_finish
    \/ \E settings \in CacheSettings, now \in CacheTimes, fault \in DatabaseFaults :
          scan_finish(settings, now, fault)
    \/ \E server_name \in ServerNames : reconnect_begin(server_name)
    \/ \E found \in DiscoveryResults : reconnect_end(found)
    \/ health_check

SpecApp == InitApp /\ [][NextApp]_vars

(***************************************************************************)
(* Properties of the application.                                          *)
(***************************************************************************)
\* the step that ends a scan
ScanEnd ==
    /\ task.op = "scan_media_files"
    /\ task' = NoTask

\* the first place of a path in a list of files
FirstWith(files, path) ==
    CHOOSE k \in 1..Len(files) :
        /\ files[k].path = path
        /\ \A j \in 1..(k - 1) : files[j].path # path

\* C24: the walk returns one entry for every listing of a media item, so an
\* item listed by two containers is returned twice.  After a successful
\* cache_media_files(files, share) the rows of that share are one row per
\* distinct path of files, in the order of the first occurrences and built
\* of the first occurrence; the rows cached earlier for the share are gone
\* and the rows of other shares are unchanged.  The call fails on a
\* non-unique path only when a row of another share holds a path of files.
C24_Theorem ==
    /\ [](WalkReturned =>
            /\ ret.value = media_files
            /\ \A i \in 1..Len(requests) : \A e \in Range(Listed(i)) :
                  Eligible(e) =>
                     \E k \in 1..Len(media_files) :
                        found_by[k] = i /\ media_files[k].id = e.id)
    /\ [][(ScanEnd /\ ret'.op = "cache_media_files") =>
            LET files == ret.value
                rows == GetMediaFiles(RowsOfShare(table', "UPnP"))
                others == RowsOfOthers(table, "UPnP")
            IN /\ ret'.kind = "return" =>
                    /\ Paths(rows) = Keys(Paths(files))
                    /\ \A k \in 1..Len(rows) :
                          LET file == files[FirstWith(files, rows[k].path)]
                          IN /\ rows[k].name = file.title
                             /\ rows[k].file_type
                                   = get_file_type_from_mime(file.mime_type)
                    /\ RowsOfOthers(table', "UPnP") = others
                    /\ Len(table') = Len(others) + Len(rows)
               /\ (ret'.kind = "raise" /\ ret'.value = <<"IntegrityError">>) =>
                    \E i \in 1..Len(files), k \in 1..Len(others) :
                       others[k].file.path = files[i].path]_vars

C24_Witness ==
    /\ pc = "idle"
    /\ task = NoTask
    /\ ret.op = "cache_media_files"
    /\ ret.kind = "return"
    /\ Len(media_files) = 3
    /\ media_files[1] = UPnPMediaFile(Video("0"))
    /\ media_files[3] = media_files[1]
    /\ found_by = <<2, 2, 1>>
    /\ Paths(GetMediaFiles(RowsOfShare(table, "UPnP")))
          = <<media_files[1].path, media_files[2].path>>
    /\ RowsOfOthers(table, "UPnP") = <<Stored("SMB", Legacy(1))>>

\* C28: a scan whose walk raised or returned the empty list ends without a
\* call of cache_media_files and leaves the media_files table, the rows
\* cached for share 'UPnP' by earlier scans included, as it was.
C28_Theorem ==
    [][(ScanEnd /\ (ret.kind = "raise" \/ ret.value = <<>>)) =>
          /\ table' = table
          /\ ret'.op = "scan_media_files"
          /\ ret'.kind = "return"]_vars

C28_Witness ==
    /\ pc = "idle"
    /\ task = NoTask
    /\ ret.op = "scan_media_files"
    /\ ret.kind = "return"
    /\ call.op = "scan_media_files"
    /\ server[RootId] = Some(Fault500)
    /\ Len(requests) = 1
    /\ media_files = <<>>
    /\ RowsOfShare(table, "UPnP") = <<Stored("UPnP", EarlierRow)>>

\* C27 as claimed: after a POST /upnp/reconnect that ended in 404 the global
\* client, its connected server and the playlist generator are what they
\* were before the request, and /health reports a connection that was
\* healthy before as connected.
C27_Claimed ==
    (/\ task = NoTask
     /\ ret.op = "reconnect_upnp_server"
     /\ ret.kind = "raise"
     /\ ret.value = <<"HTTP 404">>
     /\ call.op = "reconnect_upnp_server") =>
        /\ upnp_client = call.upnp_client
        /\ connected_server = call.connected_server
        /\ playlist_gen = call.playlist_gen
        /\ (call.upnp_client # 0 /\ call.connected_server # None) => Healthy

====
